---- MODULE Spec2Model ----
(***************************************************************************)
(* A model of the recursive SQL database: the paged table catalog          *)
(* (src/db/index.js), its pages and page buffer, the join primitives and   *)
(* the optimised recursive evaluator (evaluators/recursivedb).             *)
(*                                                                         *)
(* Encoding of JavaScript values                                           *)
(*   scalar      <<"n", i>> the number i, <<"s", i>> the string of the     *)
(*               decimal digits of i, <<"undef">> the value undefined      *)
(*   table name  <<"a">> a name written in a query or by a driver,         *)
(*               <<"#", k>> the k-th nanoid(), <<"[]", x, y>> the JSON     *)
(*               text of the sorted pair [x, y]                            *)
(*   key         <<"col", c>> the property c, <<"_id", <<>>>> the property *)
(*               _id, <<"_id", t>> the property `_id${t}`                  *)
(*   _id         <<"json", rec>> JSON.stringify(rec), <<"nano", t, k>>     *)
(*               `${t}:${nanoid()}`, <<"pair", i, j>> `${i}|${j}`          *)
(*   record      the sequence of its <<key, value>> properties, in the     *)
(*               order JavaScript enumerates them (insertion order)        *)
(***************************************************************************)
EXTENDS Integers, Sequences, FiniteSets, TLC

VARIABLES db, pc, query, recordsInserted, passes, before, out

vars == <<db, pc, query, recordsInserted, passes, before, out>>

(***************************************************************************)
(* Configuration (config.js).  The model runs the engine with small pages, *)
(* a small buffer and a small join block so that page fills, evictions and *)
(* block boundaries happen on tables of a few records.                     *)
(***************************************************************************)
maxNoOfRecsPerFile == 2
cacheMax == 2
blockJoinSize == 2

(***************************************************************************)
(* Generic helpers                                                         *)
(***************************************************************************)
FoldLeft(Op(_, _), base, seq) ==
  LET f[i \in 0..Len(seq)] == IF i = 0 THEN base ELSE Op(f[i - 1], seq[i])
  IN f[Len(seq)]

Range(seq) == {seq[i] : i \in 1..Len(seq)}

Filter(Test(_), seq) == SelectSeq(seq, Test)

\* K applied to a value computed once
Bind(v, K(_)) == K(v)

Flatten(seqs) == FoldLeft(LAMBDA acc, s: acc \o s, <<>>, seqs)

MapRemove(f, k) == [x \in DOMAIN f \ {k} |-> f[x]]

MapSet(f, k, v) == [x \in DOMAIN f \cup {k} |-> IF x = k THEN v ELSE f[x]]

EmptyMap == [x \in {} |-> 0]

\* the multiset of the elements of a sequence
BagOf(seq) == [e \in Range(seq) |-> Cardinality({i \in 1..Len(seq) : seq[i] = e})]

(***************************************************************************)
(* Scalars and their comparison                                            *)
(***************************************************************************)
Undef == <<"undef">>
Num(i) == <<"n", i>>
Str(i) == <<"s", i>>

RECURSIVE Digits(_)
Digits(i) == IF i < 10 THEN <<i>> ELSE Append(Digits(i \div 10), i % 10)

RECURSIVE LexGreater(_, _)
LexGreater(s, t) ==
  IF s = <<>> THEN FALSE
  ELSE IF t = <<>> THEN TRUE
  ELSE IF Head(s) # Head(t) THEN Head(s) > Head(t)
  ELSE LexGreater(Tail(s), Tail(t))

\* JavaScript v > w: two strings compare as texts, anything else as numbers
\* (undefined converts to NaN, and every comparison with NaN is false)
JsGreater(v, w) ==
  IF v = Undef \/ w = Undef THEN FALSE
  ELSE IF v[1] = "s" /\ w[1] = "s" THEN LexGreater(Digits(v[2]), Digits(w[2]))
  ELSE IF v[1] \in {"n", "s"} /\ w[1] \in {"n", "s"} THEN v[2] > w[2]
  ELSE FALSE

\* JavaScript v == w (loose equality): a number equals the string of its digits
JsLooseEq(v, w) ==
  IF v = Undef \/ w = Undef THEN v = w
  ELSE IF v[1] \in {"n", "s"} /\ w[1] \in {"n", "s"} THEN v[2] = w[2]
  ELSE v = w

(***************************************************************************)
(* Records                                                                 *)
(***************************************************************************)
ColKey(c) == <<"col", c>>
IdKey == <<"_id", <<>>>>
IdOf(t) == <<"_id", t>>

IsIdKey(k) == k[1] = "_id"

HasKey(rec, k) == \E i \in 1..Len(rec) : rec[i][1] = k

\* rec[k]
Get(rec, k) ==
  IF HasKey(rec, k)
  THEN rec[CHOOSE i \in 1..Len(rec) : rec[i][1] = k][2]
  ELSE Undef

\* rec[k] = v : an existing property keeps its place, a new one goes last
Put(rec, k, v) ==
  IF HasKey(rec, k)
  THEN [i \in 1..Len(rec) |-> IF rec[i][1] = k THEN <<k, v>> ELSE rec[i]]
  ELSE Append(rec, <<k, v>>)

\* JSON.stringify drops the properties whose value is undefined
JSONstringify(rec) == <<"json", Filter(LAMBDA p: p[2] # Undef, rec)>>

PairId(id1, id2) == <<"pair", id1, id2>>
NanoRecordId(t, k) == <<"nano", t, k>>

(***************************************************************************)
(* FastPriorityQueue: a binary heap in an array (position i of the         *)
(* JavaScript array is arr[i + 1] here).                                   *)
(***************************************************************************)
pageSpaceComparator(entry1, entry2) == entry1.spacesLeft > entry2.spacesLeft

RECURSIVE PercolateUp(_, _, _)
PercolateUp(arr, i, v) ==
  IF i > 0 /\ pageSpaceComparator(v, arr[((i - 1) \div 2) + 1])
  THEN PercolateUp([arr EXCEPT ![i + 1] = arr[((i - 1) \div 2) + 1]],
                   (i - 1) \div 2, v)
  ELSE [arr EXCEPT ![i + 1] = v]

RECURSIVE PercolateDownFrom(_, _, _)
PercolateDownFrom(arr, i, ai) ==
  LET size == Len(arr)
      l0 == 2 * i + 1
      r0 == l0 + 1
      l == IF r0 < size /\ pageSpaceComparator(arr[r0 + 1], arr[l0 + 1])
           THEN r0 ELSE l0
  IN IF i < size \div 2 /\ pageSpaceComparator(arr[l + 1], ai)
     THEN PercolateDownFrom([arr EXCEPT ![i + 1] = arr[l + 1]], l, ai)
     ELSE [arr EXCEPT ![i + 1] = ai]

PercolateDown(arr, i) ==
  IF i < Len(arr) THEN PercolateDownFrom(arr, i, arr[i + 1]) ELSE arr

\* add that leaves the new entry at the end of the array
QueueAddLast(arr, v) == Append(arr, v)

QueueAdd(arr, v) == PercolateUp(Append(arr, v), Len(arr), v)

QueuePeek(arr) == arr[1]

QueuePoll(arr) ==
  IF Len(arr) > 1
  THEN PercolateDown(<<arr[Len(arr)]>> \o SubSeq(arr, 2, Len(arr) - 1), 0)
  ELSE <<>>

RECURSIVE HeapifyFrom(_, _)
HeapifyFrom(arr, i) ==
  IF i < 0 THEN arr ELSE HeapifyFrom(PercolateDown(arr, i), i - 1)

QueueHeapify(arr) == HeapifyFrom(arr, Len(arr) \div 2)

(***************************************************************************)
(* The DB singleton.  db is a record:                                      *)
(*   buf              the page buffer's LRU cache: page ids, most recently *)
(*                    used first                                           *)
(*   pages            page id -> the page's _files                         *)
(*   tables           table name -> its page ids, in insertion order       *)
(*   tablePageSpaces  table name -> the heap array of its free-space queue *)
(*   tableCols        table name -> column names                           *)
(*   tableHashes      table name -> (key -> hash index); a hash index is   *)
(*                    the sequence of its <<value, locators>> entries in   *)
(*                    insertion order, a locator is <<page id, slot>>      *)
(*   nano             the number of nanoid() calls so far                  *)
(*   error            "" or the message of the exception that ended the    *)
(*                    running operation                                    *)
(***************************************************************************)
NewDB ==
  [buf |-> <<>>, pages |-> EmptyMap, tables |-> EmptyMap,
   tablePageSpaces |-> EmptyMap, tableCols |-> EmptyMap,
   tableHashes |-> EmptyMap, nano |-> 0, error |-> ""]

Throw(d, msg) == IF d.error = "" THEN [d EXCEPT !.error = msg] ELSE d

TableExists(d, t) == t \in DOMAIN d.tables

(***************************************************************************)
(* Page                                                                    *)
(***************************************************************************)
spacesLeft(files) == maxNoOfRecsPerFile - Len(files)

(***************************************************************************)
(* PageBuffer                                                              *)
(***************************************************************************)
hasPage(d, pageId) == pageId \in Range(d.buf)

\* this._maxPages: cacheOptions.max, or the capacity of a buffer that was
\* built with another one (the field bufMax)
maxPages(d) == IF "bufMax" \in DOMAIN d THEN d.bufMax ELSE cacheMax

\* Bookkeeping of an observed buffer (a DB record that has these fields):
\*   fetches   the number of wait(pageFetchTime) calls since the running
\*             operation began
\*   accesses  the page ids handed to the cache's get since then, in order
\*   recency   the page ids this buffer ever admitted, the most recently
\*             admitted or got first
Observed(d) == "recency" \in DOMAIN d

NoteFetch(d, pageId) ==
  IF Observed(d)
  THEN [d EXCEPT !.fetches = @ + 1,
                 !.recency = <<pageId>> \o SelectSeq(@, LAMBDA p: p # pageId)]
  ELSE d

NoteAccess(d, pageId) ==
  IF Observed(d)
  THEN [d EXCEPT !.accesses = Append(@, pageId),
                 !.recency = <<pageId>> \o SelectSeq(@, LAMBDA p: p # pageId)]
  ELSE d

\* LRU set: the page becomes the most recent one, the least recent is evicted
addPage(d, pageId) ==
  Bind(Filter(LAMBDA p: p # pageId, d.buf),
       LAMBDA rest:
         [NoteFetch(d, pageId) EXCEPT !.buf = <<pageId>> \o (IF Len(rest) >= maxPages(d)
                                                     THEN SubSeq(rest, 1, maxPages(d) - 1)
                                                     ELSE rest)])

\* cacheGet leaving the recency order as it is (the cache's peek)
cacheGetWithoutPromotion(d, pageId) ==
  IF hasPage(d, pageId) THEN NoteAccess(d, pageId) ELSE Throw(d, "TypeError")

\* LRU get: the page becomes the most recent one
cacheGet(d, pageId) ==
  IF hasPage(d, pageId)
  THEN [NoteAccess(d, pageId) EXCEPT !.buf = <<pageId>> \o Filter(LAMBDA p: p # pageId, d.buf)]
  ELSE Throw(d, "TypeError")

\* EnsurePage fetching the page whether the buffer holds it or not
EnsurePageAlways(d, pageId) == addPage(d, pageId)

\* if (!this._buf.hasPage(pageId)) this._buf.addPage(page)
EnsurePage(d, pageId) == IF hasPage(d, pageId) THEN d ELSE addPage(d, pageId)

\* PageBuffer.insertRecord with Page.insertRecord
bufInsertRecord(d, pageId, record) ==
  IF ~hasPage(d, pageId) THEN Throw(d, "TypeError")
  ELSE IF Len(d.pages[pageId]) < maxNoOfRecsPerFile
  THEN [cacheGet(d, pageId) EXCEPT !.pages[pageId] = Append(@, record)]
  ELSE Throw(cacheGet(d, pageId), "Cannot insert record")

\* PageBuffer.clearPage with Page.clear
clearPage(d, pageId) ==
  IF ~hasPage(d, pageId) THEN Throw(d, "TypeError")
  ELSE [cacheGet(d, pageId) EXCEPT !.pages[pageId] = <<>>]

\* Page.directAccess: the record at a slot
directAccess(files, index) == files[index + 1]

\* the state after PageBuffer.getPageRecord
getPageRecord(d, pageId, index) ==
  IF ~hasPage(d, pageId) THEN Throw(d, "TypeError")
  ELSE IF index >= Len(d.pages[pageId])
  THEN Throw(cacheGet(d, pageId), "Record index out of bounds")
  ELSE cacheGet(d, pageId)

\* getPageContents called without the admission of a page the buffer lacks
getPageContentsWithoutAdmission(d, pageId) == cacheGet(d, pageId)

\* the state after admitting a page if needed and PageBuffer.getPageContents
getPageContents(d, pageId) == cacheGet(EnsurePage(d, pageId), pageId)

(***************************************************************************)
(* Hash indexes                                                            *)
(***************************************************************************)
IndexHas(ix, v) == \E i \in 1..Len(ix) : ix[i][1] = v

IndexGet(ix, v) == ix[CHOOSE i \in 1..Len(ix) : ix[i][1] = v][2]

IndexKeys(ix) == [i \in 1..Len(ix) |-> ix[i][1]]

IndexSet(ix, v, locs) ==
  IF IndexHas(ix, v)
  THEN [i \in 1..Len(ix) |-> IF ix[i][1] = v THEN <<v, locs>> ELSE ix[i]]
  ELSE Append(ix, <<v, locs>>)

isTableHashed(d, tableName, col) == col \in DOMAIN d.tableHashes[tableName]

\* the records of a table in scan order (page insertion order, then slot)
StoredRecords(d, tableName) ==
  Flatten([i \in 1..Len(d.tables[tableName]) |-> d.pages[d.tables[tableName][i]]])

\* what the index map holds after hashTable(t, c, false) on a column that had
\* no index and a table without records: the value undefined
UndefinedIndex == << <<Undef, <<>>>> >>

\* A caller's loop over a lazy record stream is a fold whose accumulator s is a
\* record [d |-> the DB, x |-> the caller's own variables]: the stream's page
\* accesses and the loop body's operations happen in the code's order.
Failed(s) == s.d.error # ""

\* an accumulator after a DB operation
OnDb(s, d2) == [s EXCEPT !.d = d2]

\* for (const record of getAllRecords(tableName)) Body : every page is admitted
\* and read when the scan reaches it, and iterated from a snapshot taken then
ForEachRecord(Body(_, _), s, tableName) ==
  IF Failed(s) THEN s
  ELSE FoldLeft(LAMBDA acc, pageId:
                  IF Failed(acc) THEN acc
                  ELSE Bind(getPageContents(acc.d, pageId),
                            LAMBDA g:
                              FoldLeft(LAMBDA a, rec: IF Failed(a) THEN a ELSE Body(a, rec),
                                       OnDb(acc, g), g.pages[pageId])),
                s, s.d.tables[tableName])

\* the records a complete getAllRecords scan yields, and the DB after it
getAllRecords(d, tableName) ==
  ForEachRecord(LAMBDA a, rec: [a EXCEPT !.x = Append(@, rec)],
                [d |-> d, x |-> <<>>], tableName)

\* IndexAdd setting the locator list anew for a value the index holds
IndexAddOverwriting(hashIndex, colVal, loc) == IndexSet(hashIndex, colVal, <<loc>>)

\* hashIndex after the record at loc, whose column value is colVal
IndexAdd(hashIndex, colVal, loc) ==
  IF ~IndexHas(hashIndex, colVal)
  THEN IndexSet(hashIndex, colVal, <<loc>>)
  ELSE IndexSet(hashIndex, colVal, Append(IndexGet(hashIndex, colVal), loc))

\* the pages hashTable reads up to the first record of the table
PagesToFirstRecord(d, tableName) ==
  SubSeq(d.tables[tableName], 1,
         CHOOSE i \in 1..Len(d.tables[tableName]) :
            /\ d.pages[d.tables[tableName][i]] # <<>>
            /\ \A j \in 1..(i - 1) : d.pages[d.tables[tableName][j]] = <<>>)

\* When not isNew, hashIndex is what the index map holds for the column:
\* undefined when the column has no index (or holds undefined from an earlier
\* call), and then the first record read ends the call with a TypeError.
hashTable(d, tableName, colName, isNew) ==
  IF d.error # "" THEN d
  ELSE IF ~isNew /\ (\/ ~isTableHashed(d, tableName, colName)
                     \/ d.tableHashes[tableName][colName] = UndefinedIndex)
  THEN IF StoredRecords(d, tableName) = <<>>
       THEN [getAllRecords(d, tableName).d EXCEPT
               !.tableHashes[tableName] = MapSet(@, colName, UndefinedIndex)]
       ELSE Throw(FoldLeft(LAMBDA acc, pageId: getPageContents(acc, pageId), d,
                           PagesToFirstRecord(d, tableName)),
                  "TypeError")
  ELSE \* the scan, with the index under construction carried as x
       Bind(FoldLeft(
              LAMBDA acc, pageId:
                Bind(getPageContents(acc.d, pageId),
                     LAMBDA g:
                       [d |-> g,
                        x |-> FoldLeft(LAMBDA ix, index:
                                         IndexAdd(ix, Get(g.pages[pageId][index + 1], colName),
                                                  <<pageId, index>>),
                                       acc.x, [k \in 1..Len(g.pages[pageId]) |-> k - 1])]),
              [d |-> d, x |-> IF isNew THEN <<>> ELSE d.tableHashes[tableName][colName]],
              d.tables[tableName]),
            LAMBDA scan:
              [scan.d EXCEPT !.tableHashes[tableName] = MapSet(@, colName, scan.x)])

addNewPageToTable(d, tableName) ==
  [d EXCEPT !.nano = @ + 1,
            !.pages = MapSet(@, d.nano, <<>>),
            !.tables[tableName] = Append(@, d.nano),
            !.tablePageSpaces[tableName] =
               QueueAdd(@, [pageId |-> d.nano, spacesLeft |-> spacesLeft(<<>>)])]

\* addTable without the test for an existing name
addTableOverwriting(d, tableName, colNames) ==
  IF d.error # "" THEN d
  ELSE addNewPageToTable(
         [d EXCEPT !.tables = MapSet(@, tableName, <<>>),
                   !.tableHashes = MapSet(@, tableName, EmptyMap),
                   !.tablePageSpaces = MapSet(@, tableName, <<>>),
                   !.tableCols = MapSet(@, tableName, colNames)],
         tableName)

addTable(d, tableName, colNames) ==
  IF d.error # "" \/ TableExists(d, tableName) THEN d
  ELSE addNewPageToTable(
         [d EXCEPT !.tables = MapSet(@, tableName, <<>>),
                   !.tableHashes = MapSet(@, tableName, EmptyMap),
                   !.tablePageSpaces = MapSet(@, tableName, <<>>),
                   !.tableCols = MapSet(@, tableName, colNames)],
         tableName)

\* _getPageToInsert that adds a page whatever the top of the queue says
getPageToInsertAlwaysNew(d, tableName) ==
  Bind(addNewPageToTable(d, tableName),
       LAMBDA d1:
         [d |-> [d1 EXCEPT !.tablePageSpaces[tableName] = QueuePoll(@)],
          entry |-> QueuePeek(d1.tablePageSpaces[tableName])])

\* the state after _getPageToInsert, and the entry it returns
getPageToInsert(d, tableName) ==
  Bind(IF QueuePeek(d.tablePageSpaces[tableName]).spacesLeft = 0
       THEN addNewPageToTable(d, tableName) ELSE d,
       LAMBDA d1:
         [d |-> [d1 EXCEPT !.tablePageSpaces[tableName] = QueuePoll(@)],
          entry |-> QueuePeek(d1.tablePageSpaces[tableName])])

Min(a, b) == IF a < b THEN a ELSE b

\* the polled entry is not added back
requeueNothing(d, tableName, pageId) == d

\* the polled entry is added back as the entry of an empty page
requeuePageAsEmpty(d, tableName, pageId) ==
  IF d.error # "" THEN d
  ELSE [d EXCEPT !.tablePageSpaces[tableName] =
                    QueueAdd(@, [pageId |-> pageId, spacesLeft |-> spacesLeft(<<>>)])]

\* tablePageSpaces.add({ pageId, spacesLeft: page.spacesLeft() })
requeuePage(d, tableName, pageId) ==
  IF d.error # "" THEN d
  ELSE [d EXCEPT !.tablePageSpaces[tableName] =
                    QueueAdd(@, [pageId |-> pageId,
                                 spacesLeft |-> spacesLeft(d.pages[pageId])])]

\* insertOneRecord that discards the indexes of the table
insertOneRecordForgettingIndexes(d, tableName, pageId, rec) ==
  IF d.error # "" THEN d
  ELSE [bufInsertRecord(d, pageId, rec) EXCEPT !.tableHashes[tableName] = EmptyMap]

\* one record of insertRecords: copy it, give it an _id if it has none, store it
insertOneRecord(d, tableName, pageId, rec) ==
  IF d.error # "" THEN d
  ELSE IF ~HasKey(rec, IdKey)
  THEN bufInsertRecord([d EXCEPT !.nano = @ + 1], pageId,
                       <<<<IdKey, NanoRecordId(tableName, d.nano)>>>> \o rec)
  ELSE bufInsertRecord(d, pageId, rec)

RECURSIVE insertRecords(_, _, _)
insertRecords(d, tableName, records) ==
  IF d.error # "" \/ records = <<>> THEN d
  ELSE Bind(getPageToInsert(d, tableName),
            LAMBDA got:
              insertRecords(
                requeuePage(
                  FoldLeft(LAMBDA acc, rec:
                             insertOneRecord(acc, tableName, got.entry.pageId, rec),
                           EnsurePage(got.d, got.entry.pageId),
                           SubSeq(records, 1, Min(got.entry.spacesLeft, Len(records)))),
                  tableName, got.entry.pageId),
                tableName,
                SubSeq(records, Min(got.entry.spacesLeft, Len(records)) + 1, Len(records))))

\* hashIndex.set(rec._id, [[pageId, index]]) after a stored record
indexStoredRecord(d, tableName, id, loc) ==
  IF d.error # "" THEN d
  ELSE [d EXCEPT !.tableHashes[tableName][IdKey] = IndexSet(@, id, <<loc>>)]

\* storeUniqueRecord without its hashIndex.set(_id, ...)
storeUniqueRecordNoIndexSet(d, tableName, rec) ==
  Bind(getPageToInsert(d, tableName),
       LAMBDA got:
         requeuePage(bufInsertRecord(EnsurePage(got.d, got.entry.pageId),
                                     got.entry.pageId, rec),
                     tableName, got.entry.pageId))

\* the insertion of a record whose _id the index does not hold
storeUniqueRecord(d, tableName, rec) ==
  Bind(getPageToInsert(d, tableName),
       LAMBDA got:
         Bind(EnsurePage(got.d, got.entry.pageId),
              LAMBDA d1:
                indexStoredRecord(
                  requeuePage(bufInsertRecord(d1, got.entry.pageId, rec),
                              tableName, got.entry.pageId),
                  tableName, Get(rec, IdKey),
                  <<got.entry.pageId, Len(d1.pages[got.entry.pageId])>>)))

\* one record of insertUniqueRecordsById
insertUniqueRecord(d, tableName, rec) ==
  IF d.error # "" THEN d
  ELSE IF d.tableHashes[tableName][IdKey] = UndefinedIndex THEN Throw(d, "TypeError")
  ELSE IF IndexHas(d.tableHashes[tableName][IdKey], Get(rec, IdKey)) THEN d
  ELSE storeUniqueRecord(d, tableName, rec)

insertUniqueRecordsById(d, tableName, records) ==
  IF d.error # "" THEN d
  ELSE FoldLeft(LAMBDA acc, rec: insertUniqueRecord(acc, tableName, rec),
                IF ~isTableHashed(d, tableName, IdKey)
                THEN hashTable(d, tableName, IdKey, TRUE) ELSE d,
                records)

\* the queue rebuilt from the pages of a table
newTableSpaces(d, tableName) ==
  [i \in 1..Len(d.tables[tableName]) |->
     [pageId |-> d.tables[tableName][i],
      spacesLeft |-> spacesLeft(d.pages[d.tables[tableName][i]])]]

\* clearTable that leaves the indexes of the table
clearTableKeepingIndexes(d, tableName) ==
  IF d.error # "" THEN d
  ELSE Bind(FoldLeft(LAMBDA acc, pageId: clearPage(EnsurePage(acc, pageId), pageId),
                     d, d.tables[tableName]),
            LAMBDA d1:
              [d1 EXCEPT !.tablePageSpaces[tableName] =
                            QueueHeapify(newTableSpaces(d1, tableName))])

clearTable(d, tableName) ==
  IF d.error # "" THEN d
  ELSE Bind(FoldLeft(LAMBDA acc, pageId: clearPage(EnsurePage(acc, pageId), pageId),
                     d, d.tables[tableName]),
            LAMBDA d1:
              [d1 EXCEPT !.tablePageSpaces[tableName] =
                            QueueHeapify(newTableSpaces(d1, tableName)),
                         !.tableHashes[tableName] = EmptyMap])

\* the page objects of a dropped table are unreachable and are forgotten; their
\* ids may stay in the buffer
\* drop that leaves the column list of the table
dropKeepingCols(d, tableName) ==
  IF d.error # "" \/ ~TableExists(d, tableName) THEN d
  ELSE Bind(clearTable(d, tableName),
            LAMBDA d1:
              [d1 EXCEPT !.tables = MapRemove(@, tableName),
                         !.tablePageSpaces = MapRemove(@, tableName),
                         !.tableHashes = MapRemove(@, tableName),
                         !.pages = [p \in DOMAIN d1.pages \ Range(d1.tables[tableName])
                                      |-> d1.pages[p]]])

drop(d, tableName) ==
  IF d.error # "" \/ ~TableExists(d, tableName) THEN d
  ELSE Bind(clearTable(d, tableName),
            LAMBDA d1:
              [d1 EXCEPT !.tables = MapRemove(@, tableName),
                         !.tablePageSpaces = MapRemove(@, tableName),
                         !.tableHashes = MapRemove(@, tableName),
                         !.tableCols = MapRemove(@, tableName),
                         !.pages = [p \in DOMAIN d1.pages \ Range(d1.tables[tableName])
                                      |-> d1.pages[p]]])

RECURSIVE dropTables(_, _)
dropTables(d, names) ==
  IF names = {} THEN d
  ELSE Bind(CHOOSE t \in names : TRUE,
            LAMBDA t: dropTables(drop(d, t), names \ {t}))

\* every table dropped, then this._buf = new PageBuffer()
dropAllTables(d) ==
  IF d.error # "" THEN d
  ELSE Bind(dropTables(d, DOMAIN d.tables),
            LAMBDA d1: IF Observed(d1) THEN [d1 EXCEPT !.buf = <<>>, !.recency = <<>>]
                       ELSE [d1 EXCEPT !.buf = <<>>])

getTableKeys(d, tableName) == d.tableCols[tableName]

SumSpaces(arr) == FoldLeft(LAMBDA acc, e: acc + e.spacesLeft, 0, arr)

getNumberOfEntries(d, tableName) ==
  maxNoOfRecsPerFile * Len(d.tables[tableName]) - SumSpaces(d.tablePageSpaces[tableName])

\* hasValue on a hashed column (on another one it throws)
hasValue(d, tableName, colName, val) ==
  IndexHas(d.tableHashes[tableName][colName], val)

(***************************************************************************)
(* Streams read through a hash index                                       *)
(***************************************************************************)
\* the records at a list of locators, read one by one through the buffer
\* (x collects them)
ReadLocators(d, locs) ==
  FoldLeft(LAMBDA acc, loc:
             IF Failed(acc) THEN acc
             ELSE IF loc[1] \notin DOMAIN acc.d.pages
             THEN OnDb(acc, Throw(acc.d, "TypeError"))
             ELSE Bind(getPageRecord(EnsurePage(acc.d, loc[1]), loc[1], loc[2]),
                       LAMBDA g:
                         IF g.error # "" THEN OnDb(acc, g)
                         ELSE [d |-> g,
                               x |-> Append(acc.x, directAccess(g.pages[loc[1]], loc[2]))]),
           [d |-> d, x |-> <<>>], locs)

\* LocatorsOf taking only the first locator of every key
FirstLocatorsOf(hashIndex, keys) ==
  [i \in 1..Len(keys) |-> IndexGet(hashIndex, keys[i])[1]]

\* the locators under the keys of an index, key after key
LocatorsOf(hashIndex, keys) ==
  Flatten([i \in 1..Len(keys) |-> IndexGet(hashIndex, keys[i])])

\* for (const rec of getRecsFromHash(tableName, colName, op, rhs)) Body
ForEachFromHash(Body(_, _), s, tableName, colName, op, rhs) ==
  IF Failed(s) THEN s
  ELSE IF ~isTableHashed(s.d, tableName, colName)
  THEN OnDb(s, Throw(s.d, "Table needs to be hashed first"))
  ELSE IF s.d.tableHashes[tableName][colName] = UndefinedIndex
  THEN OnDb(s, Throw(s.d, "TypeError"))
  ELSE IF op \notin {"=", ">"} THEN OnDb(s, Throw(s.d, "Unexpected operator"))
  ELSE FoldLeft(
         LAMBDA acc, loc:
           IF Failed(acc) THEN acc
           ELSE Bind(ReadLocators(acc.d, <<loc>>),
                     LAMBDA r: IF Failed(r) THEN OnDb(acc, r.d)
                               ELSE Body(OnDb(acc, r.d), r.x[1])),
         s,
         IF op = "="
         THEN IF ~IndexHas(s.d.tableHashes[tableName][colName], rhs) THEN <<>>
              ELSE IndexGet(s.d.tableHashes[tableName][colName], rhs)
         ELSE LocatorsOf(s.d.tableHashes[tableName][colName],
                         Filter(LAMBDA key: JsGreater(key, rhs),
                                IndexKeys(s.d.tableHashes[tableName][colName]))))

getRecsFromHash(d, tableName, colName, op, rhs) ==
  ForEachFromHash(LAMBDA a, rec: [a EXCEPT !.x = Append(@, rec)],
                  [d |-> d, x |-> <<>>], tableName, colName, op, rhs)

(***************************************************************************)
(* Joins.  A projection is a sequence of [colNameDst, srcTName, srcCName]. *)
(***************************************************************************)
\* the switch on srcTName: case t1 comes first, so when t1 = t2 every column is
\* read from rec1
ProjectionFits(projection, t1, t2) ==
  \A i \in 1..Len(projection) : projection[i].srcTName \in {t1, t2}

\* Project reading every column from the first record
ProjectFromFirst(projection, t1, t2, rec1, rec2) ==
  FoldLeft(LAMBDA res, p: Put(res, ColKey(p.colNameDst), Get(rec1, ColKey(p.srcCName))),
           <<>>, projection)

Project(projection, t1, t2, rec1, rec2) ==
  FoldLeft(LAMBDA res, p:
             Put(res, ColKey(p.colNameDst),
                 IF p.srcTName = t1 THEN Get(rec1, ColKey(p.srcCName))
                 ELSE Get(rec2, ColKey(p.srcCName))),
           <<>>, projection)

\* the record hashJoin yields for a pair (rec1, rec2)
JoinedRecord(projection, t1, t2, rec1, rec2, shouldGenPairId) ==
  LET res == Project(projection, t1, t2, rec1, rec2)
  IN IF shouldGenPairId
     THEN Put(Put(Put(res, IdKey, PairId(Get(rec1, IdKey), Get(rec2, IdKey))),
                  IdOf(t1), Get(rec1, IdKey)),
              IdOf(t2), Get(rec2, IdKey))
     ELSE res

\* JoinKeys comparing with === where the code compares with ==
JoinKeysStrict(index2, val1, op) ==
  Filter(LAMBDA val2: IF op = ">" THEN JsGreater(val1, val2)
                      ELSE IF op = "=" THEN val1 = val2
                      ELSE FALSE,
         IndexKeys(index2))

\* JoinKeys whose '=' case keeps the keys that val1 is greater than or equal to
JoinKeysGreaterOrEqual(index2, val1, op) ==
  Filter(LAMBDA val2: IF op = ">" THEN JsGreater(val1, val2)
                      ELSE IF op = "=" THEN JsGreater(val1, val2) \/ JsLooseEq(val1, val2)
                      ELSE FALSE,
         IndexKeys(index2))

\* vals2: the keys of the second index that val1 is to be joined with
JoinKeys(index2, val1, op) ==
  Filter(LAMBDA val2: IF op = ">" THEN JsGreater(val1, val2)
                      ELSE IF op = "=" THEN JsLooseEq(val1, val2)
                      ELSE FALSE,
         IndexKeys(index2))

\* all pairs (r1, r2) of two record sequences, r1 outermost
AllPairs(recs1, recs2) ==
  Flatten([i \in 1..Len(recs1) |-> [j \in 1..Len(recs2) |-> <<recs1[i], recs2[j]>>]])

\* the DB with both join columns hashed, if they were not
hashJoinColumns(d, t1, c1, t2, c2) ==
  Bind(IF ~isTableHashed(d, t1, c1) THEN hashTable(d, t1, c1, TRUE) ELSE d,
       LAMBDA d1: IF d1.error # "" THEN d1
                  ELSE IF ~isTableHashed(d1, t2, c2) THEN hashTable(d1, t2, c2, TRUE)
                  ELSE d1)

\* for (const joinedRec of hashJoin(t1, c1, t2, c2, projection, op, pairId)) Body
ForEachHashJoin(Body(_, _), s, t1, c1, t2, c2, projection, op, shouldGenPairId) ==
  IF Failed(s) THEN s
  ELSE Bind(hashJoinColumns(s.d, t1, c1, t2, c2),
    LAMBDA d2:
      IF d2.error # "" THEN OnDb(s, d2)
      ELSE IF d2.tableHashes[t1][c1] = UndefinedIndex
              \/ d2.tableHashes[t2][c2] = UndefinedIndex
      THEN OnDb(s, Throw(d2, "TypeError"))
      ELSE FoldLeft(
             LAMBDA acc, val1:
               IF Failed(acc) THEN acc
               ELSE Bind(ReadLocators(acc.d, IndexGet(d2.tableHashes[t1][c1], val1)),
                 LAMBDA r1:
                   IF Failed(r1) THEN OnDb(acc, r1.d)
                   ELSE Bind(ReadLocators(r1.d,
                               LocatorsOf(d2.tableHashes[t2][c2],
                                          JoinKeys(d2.tableHashes[t2][c2], val1, op))),
                     LAMBDA r2:
                       IF Failed(r2) THEN OnDb(acc, r2.d)
                       ELSE IF r1.x # <<>> /\ r2.x # <<>>
                               /\ ~ProjectionFits(projection, t1, t2)
                       THEN OnDb(acc, Throw(r2.d, "Unexpected projection"))
                       ELSE FoldLeft(LAMBDA a, pr:
                                       IF Failed(a) THEN a
                                       ELSE Body(a, JoinedRecord(projection, t1, t2,
                                                                 pr[1], pr[2],
                                                                 shouldGenPairId)),
                                     OnDb(acc, r2.d), AllPairs(r1.x, r2.x)))),
             OnDb(s, d2), IndexKeys(d2.tableHashes[t1][c1])))

hashJoin(d, t1, c1, t2, c2, projection, op, shouldGenPairId) ==
  ForEachHashJoin(LAMBDA a, rec: [a EXCEPT !.x = Append(@, rec)],
                  [d |-> d, x |-> <<>>], t1, c1, t2, c2, projection, op, shouldGenPairId)

\* for (const joinedRec of blockJoin(t1, t2, projection, pairId)) Body :
\* the generator's first statement calls DB.getAllRecords, and DB names the
\* class, which has no static getAllRecords: a TypeError before any record
ForEachBlockJoin(Body(_, _), s, tableName1, tableName2, projection, shouldGenPairId) ==
  IF Failed(s) THEN s
  ELSE [s EXCEPT !.d = Throw(@, "TypeError")]

blockJoin(d, tableName1, tableName2, projection, shouldGenPairId) ==
  ForEachBlockJoin(LAMBDA a, rec: [a EXCEPT !.x = Append(@, rec)],
                   [d |-> d, x |-> <<>>], tableName1, tableName2, projection,
                   shouldGenPairId)

(***************************************************************************)
(* State predicates about a table                                          *)
(***************************************************************************)
\* the locators of the stored records of a table, in scan order
StoredLocators(d, tableName) ==
  Flatten([i \in 1..Len(d.tables[tableName]) |->
             [k \in 1..Len(d.pages[d.tables[tableName][i]]) |->
                <<d.tables[tableName][i], k - 1>>]])

RecordAt(d, loc) == directAccess(d.pages[loc[1]], loc[2])

StoredIds(d, tableName) ==
  LET recs == StoredRecords(d, tableName)
  IN [i \in 1..Len(recs) |-> Get(recs[i], IdKey)]

NoDuplicateIds(d, tableName) ==
  LET ids == StoredIds(d, tableName)
  IN \A i, j \in 1..Len(ids) : ids[i] = ids[j] => i = j

\* the _id index names every stored record by exactly one locator, its own
IdIndexExact(d, tableName) ==
  LET locs == StoredLocators(d, tableName)
  IN IF isTableHashed(d, tableName, IdKey)
     THEN LET ix == d.tableHashes[tableName][IdKey]
          IN /\ Len(ix) = Len(locs)
             /\ \A i \in 1..Len(locs) :
                  /\ IndexHas(ix, Get(RecordAt(d, locs[i]), IdKey))
                  /\ IndexGet(ix, Get(RecordAt(d, locs[i]), IdKey)) = <<locs[i]>>
     ELSE locs = <<>>

(***************************************************************************)
(* The catalog driven by a caller: any sequence of its public operations   *)
(* on a few tables with a few records.                                     *)
(***************************************************************************)
MaxNano == 5
MaxRows == 3
MaxBatch == 2

CatTables == {<<"a">>}
CatCols == <<"c1">>

CatRecords ==
  { <<<<IdKey, Str(1)>>, <<ColKey("c1"), Str(1)>>>>,
    <<<<IdKey, Str(2)>>, <<ColKey("c1"), Str(1)>>>>,
    <<<<ColKey("c1"), Str(2)>>>> }

RECURSIVE SeqsUpTo(_, _)
SeqsUpTo(S, n) ==
  IF n = 0 THEN {<<>>}
  ELSE LET shorter == SeqsUpTo(S, n - 1)
       IN shorter \cup {Append(q, e) : q \in {r \in shorter : Len(r) = n - 1}, e \in S}

Batches == SeqsUpTo(CatRecords, MaxBatch)

Idle ==
  /\ pc = "idle" /\ query = <<>> /\ recordsInserted = 0 /\ passes = 0
  /\ before = {}

CatInit ==
  /\ db = NewDB /\ out = <<"new">>
  /\ Idle

CatFrame == UNCHANGED <<pc, query, recordsInserted, passes, before>>

AddTable(t) ==
  /\ db.nano < MaxNano
  /\ db' = addTable(db, t, CatCols)
  /\ out' = <<"addTable", t, ~TableExists(db, t)>>
  /\ CatFrame

InsertRecords(t, recs) ==
  /\ TableExists(db, t)
  /\ db.nano + Len(recs) < MaxNano
  /\ Len(StoredRecords(db, t)) + Len(recs) <= MaxRows
  /\ db' = insertRecords(db, t, recs)
  /\ out' = <<"insertRecords", t, recs>>
  /\ CatFrame

InsertUniqueRecordsById(t, recs) ==
  /\ TableExists(db, t)
  /\ db.nano + Len(recs) < MaxNano
  /\ Len(StoredRecords(db, t)) < MaxRows
  /\ db' = insertUniqueRecordsById(db, t, recs)
  /\ out' = <<"insertUniqueRecordsById", t, recs>>
  /\ CatFrame

ClearTable(t) ==
  /\ TableExists(db, t)
  /\ db' = clearTable(db, t)
  /\ out' = <<"clearTable", t>>
  /\ CatFrame

HashTable(t, c) ==
  /\ TableExists(db, t)
  /\ db' = hashTable(db, t, c, TRUE)
  /\ out' = <<"hashTable", t, c>>
  /\ CatFrame

Drop(t) ==
  /\ db' = drop(db, t)
  /\ out' = <<"drop", t, TableExists(db, t)>>
  /\ CatFrame

\* insert_unique_records_by_id and clear_table only, on one table
UniqueNext ==
  \/ AddTable(<<"a">>)
  \/ \E recs \in Batches : InsertUniqueRecordsById(<<"a">>, recs)
  \/ ClearTable(<<"a">>)

SpecUnique == CatInit /\ [][UniqueNext]_vars

CatNext ==
  \/ \E t \in CatTables : AddTable(t)
  \/ \E t \in CatTables, recs \in Batches : InsertRecords(t, recs)
  \/ \E t \in CatTables, recs \in Batches : InsertUniqueRecordsById(t, recs)
  \/ \E t \in CatTables : ClearTable(t)
  \/ \E t \in CatTables, c \in {IdKey, ColKey("c1")} : HashTable(t, c)
  \/ \E t \in CatTables : Drop(t)

SpecCatalog == CatInit /\ [][CatNext]_vars

\* C6: after any sequence of insert_unique_records_by_id and clear_table on a
\* table, no two of its records share an _id and the _id index holds, for every
\* stored record, exactly one locator, which points at that record
C6_UniqueById ==
  db.error = "" /\
  \A t \in DOMAIN db.tables : NoDuplicateIds(db, t) /\ IdIndexExact(db, t)

\* a batch that repeats an _id was inserted and the table spans two pages
C6_Witness ==
  /\ out[1] = "insertUniqueRecordsById"
  /\ Len(out[3]) = 2 /\ Get(out[3][1], IdKey) = Get(out[3][2], IdKey)
  /\ Len(db.tables[<<"a">>]) > 1
  /\ Len(StoredRecords(db, <<"a">>)) > maxNoOfRecsPerFile

\* C7: in every reachable state of the catalog no table holds two records with
\* the same _id
C7_NoDuplicateIds ==
  \A t \in DOMAIN db.tables : NoDuplicateIds(db, t)

(***************************************************************************)
(* The join primitives called on tables a caller has filled.               *)
(***************************************************************************)
MaxJoinRows == 2

JoinTables == {<<"a">>, <<"b">>}
JoinValues == {Str(1), Str(2), Num(2)}

\* dst x from the first operand's c1, dst y from the second operand's c1
JoinProjection(t1, t2) ==
  << [colNameDst |-> "x", srcTName |-> t1, srcCName |-> "c1"],
     [colNameDst |-> "y", srcTName |-> t2, srcCName |-> "c1"] >>

\* the index on (t, c), if there is one, is the one hashTable would build now
IndexFresh(d, t, c) ==
  isTableHashed(d, t, c) =>
    d.tableHashes[t][c] = hashTable(d, t, c, TRUE).tableHashes[t][c]

JoinInit ==
  /\ db = addTable(addTable(NewDB, <<"a">>, CatCols), <<"b">>, CatCols)
  /\ out = [op |-> "new"]
  /\ Idle

\* the frame of the join driver: it fills the tables (pc = "idle"), then joins
JoinFrame == UNCHANGED <<query, recordsInserted, passes, before>>

\* the caller fills a table before it is first joined (no index exists yet), and
\* names its k-th record "t:k"
JoinInsert(t, v) ==
  /\ pc = "idle"
  /\ Len(StoredRecords(db, t)) < MaxJoinRows
  /\ DOMAIN db.tableHashes[t] = {}
  /\ db' = insertRecords(db, t, << << <<IdKey, NanoRecordId(t, Len(StoredRecords(db, t)))>>,
                                      <<ColKey("c1"), v>> >> >>)
  /\ out' = [op |-> "insertRecords"]
  /\ pc' = pc
  /\ JoinFrame

HashJoinCall(t1, t2, op, shouldGenPairId) ==
  /\ pc = "idle"
  /\ pc' = "joined"
  /\ Bind(hashJoin(db, t1, ColKey("c1"), t2, ColKey("c1"),
                   JoinProjection(t1, t2), op, shouldGenPairId),
          LAMBDA r:
            /\ db' = [r.d EXCEPT !.error = ""]
            /\ out' = [op |-> "hashJoin", t1 |-> t1, t2 |-> t2, operator |-> op,
                       pairId |-> shouldGenPairId, recs |-> r.x, error |-> r.d.error,
                       fresh |-> IndexFresh(db, t1, ColKey("c1"))
                                 /\ IndexFresh(db, t2, ColKey("c1"))])
  /\ JoinFrame

BlockJoinCall(t1, t2) ==
  /\ pc = "idle"
  /\ pc' = "joined"
  /\ Bind(blockJoin(db, t1, t2, JoinProjection(t1, t2), FALSE),
          LAMBDA r:
            /\ db' = [r.d EXCEPT !.error = ""]
            /\ out' = [op |-> "blockJoin", t1 |-> t1, t2 |-> t2, operator |-> "",
                       pairId |-> FALSE, recs |-> r.x, error |-> r.d.error, fresh |-> TRUE])
  /\ JoinFrame

JoinNext ==
  \/ \E t \in JoinTables, v \in JoinValues : JoinInsert(t, v)
  \/ \E t1, t2 \in JoinTables, op \in {"=", ">"}, p \in BOOLEAN : HashJoinCall(t1, t2, op, p)
  \/ \E t1, t2 \in JoinTables : BlockJoinCall(t1, t2)

SpecJoin == JoinInit /\ [][JoinNext]_vars

\* r1.c1 op r2.c1 in JavaScript
Satisfies(r1, r2, op) ==
  IF op = "=" THEN JsLooseEq(Get(r1, ColKey("c1")), Get(r2, ColKey("c1")))
  ELSE JsGreater(Get(r1, ColKey("c1")), Get(r2, ColKey("c1")))

\* the record the claim expects for a pair under JoinProjection
ExpectedJoined(t1, t2, r1, r2, pairId) ==
  << <<ColKey("x"), Get(r1, ColKey("c1"))>>, <<ColKey("y"), Get(r2, ColKey("c1"))>> >>
  \o (IF pairId
      THEN << <<IdKey, PairId(Get(r1, IdKey), Get(r2, IdKey))>>,
              <<IdOf(t1), Get(r1, IdKey)>>, <<IdOf(t2), Get(r2, IdKey)>> >>
      ELSE <<>>)

ExpectedHashJoin(d, t1, t2, op, pairId) ==
  LET pairs == Filter(LAMBDA pr: Satisfies(pr[1], pr[2], op),
                      AllPairs(StoredRecords(d, t1), StoredRecords(d, t2)))
  IN [i \in 1..Len(pairs) |-> ExpectedJoined(t1, t2, pairs[i][1], pairs[i][2], pairId)]

\* C9: hash_join on two different tables whose existing join-column indexes are
\* current yields, as a multiset, exactly one projected record for every pair
\* (r1, r2) with r1.c1 op r2.c2, carrying the pair ids when they are asked for
C9_HashJoinPairs ==
  (out.op = "hashJoin" /\ out.t1 # out.t2 /\ out.fresh) =>
     /\ out.error = ""
     /\ BagOf(out.recs) = BagOf(ExpectedHashJoin(db, out.t1, out.t2, out.operator, out.pairId))

\* a '>' join with pair ids of two full tables that yielded several records,
\* among them values of different types
C9_Witness ==
  /\ out.op = "hashJoin" /\ out.t1 # out.t2 /\ out.fresh
  /\ out.operator = ">" /\ out.pairId
  /\ Len(out.recs) >= 2
  /\ \E i \in 1..Len(out.recs) : Get(out.recs[i], ColKey("x")) = Num(2)

\* C10: block_join(t1, t2, proj) yields exactly one projected record for every
\* pair of the Cartesian product t1 x t2
C10_BlockJoinProduct ==
  out.op = "blockJoin" =>
     /\ out.error = ""
     /\ BagOf(out.recs) =
          BagOf([i \in 1..Len(AllPairs(StoredRecords(db, out.t1), StoredRecords(db, out.t2))) |->
                   ExpectedJoined(out.t1, out.t2,
                                  AllPairs(StoredRecords(db, out.t1), StoredRecords(db, out.t2))[i][1],
                                  AllPairs(StoredRecords(db, out.t1), StoredRecords(db, out.t2))[i][2],
                                  FALSE)])

(***************************************************************************)
(* Query IR (query/classes).                                               *)
(*   Column     [all, parentTable, name]; for '*' parentTable and name are *)
(*              null (here <<>> and "")                                    *)
(*   Operation  [lhs, isCol, rhsCol, rhsVal, operator]: the right-hand     *)
(*              side is the Column rhsCol when isCol, else the scalar      *)
(*              rhsVal                                                     *)
(*   Term       [cols, tables, hasOps, ops]: ops is null when ~hasOps      *)
(*   Query      [withDecl |-> [name, columns], nonrecTerm, recTerm,        *)
(*              resultTableName]                                           *)
(***************************************************************************)
Star == [all |-> TRUE, parentTable |-> <<>>, name |-> ""]
Col(t, c) == [all |-> FALSE, parentTable |-> <<t>>, name |-> c]

OpCol(l, o, r) == [lhs |-> l, isCol |-> TRUE, rhsCol |-> r, rhsVal |-> Undef, operator |-> o]
OpVal(l, o, v) == [lhs |-> l, isCol |-> FALSE, rhsCol |-> Star, rhsVal |-> v, operator |-> o]

hasBothSidesCols(op) == op.isCol

\* the Operation constructor throws `Unsupported operator ${operator}`
OperationThrows(operator) == operator \notin {"=", ">"}

\* the order of Array.prototype.sort on the table names the queries use
SortedNames == <<"a", "b", "n", "t">>
NameRank(name) == CHOOSE i \in 1..Len(SortedNames) : SortedNames[i] = name[1]

\* JSON.stringify([lhsParentTable, rhsParentTable].sort())
JoinedId(t1, t2) ==
  IF NameRank(t1) <= NameRank(t2) THEN <<"[]", t1[1], t2[1]>> ELSE <<"[]", t2[1], t1[1]>>

\* JSON.parse(compositeId)
ParsePair(compositeId) == << <<compositeId[2]>>, <<compositeId[3]>> >>

deleteIds(record) == Filter(LAMBDA p: ~IsIdKey(p[1]), record)

\* addRecordAsId taking the first column's value for the _id
addFirstValueAsId(record) == Put(record, IdKey, record[1][2])

addRecordAsId(record) == Put(record, IdKey, JSONstringify(record))

(***************************************************************************)
(* constructFilter(ops, tableName): the filter of the SELECT * path.  The  *)
(* current record defaults to {}, so a column on the right-hand side reads *)
(* as undefined.                                                           *)
(***************************************************************************)
FilterApplies(d, op, tableName) ==
  /\ tableName = op.lhs.parentTable
  /\ \E i \in 1..Len(getTableKeys(d, tableName)) :
        getTableKeys(d, tableName)[i] = op.lhs.name /\ op.lhs.name # ""

constructFilter(d, term, tableName, record) ==
  ~term.hasOps \/
  \A i \in 1..Len(term.ops) :
     LET op == term.ops[i]
         rhsVal == IF op.isCol THEN Undef ELSE op.rhsVal
     IN FilterApplies(d, op, tableName) =>
          IF op.operator = "="
          THEN JsLooseEq(Get(record, ColKey(op.lhs.name)), rhsVal)
          ELSE JsGreater(Get(record, ColKey(op.lhs.name)), rhsVal)

\* the filter's operators are checked when constructFilter builds it
FilterThrows(d, term, tableName) ==
  /\ term.hasOps
  /\ \/ Len(term.ops) > 0 /\ ~TableExists(d, tableName)
     \/ \E i \in 1..Len(term.ops) :
           /\ TableExists(d, tableName)
           /\ FilterApplies(d, term.ops[i], tableName)
           /\ term.ops[i].operator \notin {"=", ">"}

\* the branch of executeTerm for SELECT *
executeSelectAll(d, term, tempTableName, resultTableName) ==
  IF FilterThrows(d, term, term.tables[1])
  THEN Throw(d, IF TableExists(d, term.tables[1]) THEN "Unsupported operator"
                ELSE "TypeError")
  ELSE IF ~TableExists(d, term.tables[1]) THEN Throw(clearTable(d, tempTableName), "TypeError")
  ELSE ForEachRecord(
         LAMBDA s, record:
           IF constructFilter(d, term, term.tables[1], record)
           THEN OnDb(s, insertUniqueRecordsById(
                          insertUniqueRecordsById(s.d, tempTableName,
                                                  <<addRecordAsId(deleteIds(record))>>),
                          resultTableName, <<addRecordAsId(deleteIds(record))>>))
           ELSE s,
         [d |-> clearTable(d, tempTableName), x |-> <<>>], term.tables[1]).d

(***************************************************************************)
(* sortOps: the term's operations by kind.  A JavaScript Map keeps its     *)
(* keys in insertion order: simpleKeys and compositeKeys are those orders. *)
(***************************************************************************)
AppendNew(seq, e) == IF e \in Range(seq) THEN seq ELSE Append(seq, e)

TermOps(term) == IF term.hasOps THEN term.ops ELSE <<>>

simpleKeys(term) ==
  FoldLeft(LAMBDA acc, op: IF hasBothSidesCols(op) THEN acc
                           ELSE AppendNew(acc, op.lhs.parentTable),
           <<>>, TermOps(term))

simpleOps(term, tName) ==
  Filter(LAMBDA op: ~hasBothSidesCols(op) /\ op.lhs.parentTable = tName, TermOps(term))

OpJoinedId(op) == JoinedId(op.lhs.parentTable, op.rhsCol.parentTable)

compositeKeys(term) ==
  FoldLeft(LAMBDA acc, op: IF hasBothSidesCols(op) THEN AppendNew(acc, OpJoinedId(op))
                           ELSE acc,
           <<>>, TermOps(term))

compositeOps(term, compositeId) ==
  Filter(LAMBDA op: hasBothSidesCols(op) /\ OpJoinedId(op) = compositeId, TermOps(term))

tablesWithOps(term) ==
  {op.lhs.parentTable : op \in Range(TermOps(term))}
  \cup {op.rhsCol.parentTable : op \in {o \in Range(TermOps(term)) : hasBothSidesCols(o)}}

noOps(term) == Filter(LAMBDA tableName: tableName \notin tablesWithOps(term), term.tables)

\* groupedCols.get(parentTable): `parentTable in groupedCols` is false for a Map,
\* so every column resets its table's list and only the last one stays; a table
\* without a selected column has no entry (undefined)
HasGroupedCols(term, t) == \E i \in 1..Len(term.cols) : term.cols[i].parentTable = t

groupedCols(term, t) ==
  LET last == CHOOSE i \in 1..Len(term.cols) :
                 /\ term.cols[i].parentTable = t
                 /\ \A j \in (i + 1)..Len(term.cols) : term.cols[j].parentTable # t
  IN <<term.cols[last].name>>

(***************************************************************************)
(* execute: the plan of a term that is not SELECT *.                       *)
(***************************************************************************)
\* nanoid(): the name it returns, and the DB after the call
nanoid(d) == <<"#", d.nano>>
AfterNanoid(d) == [d EXCEPT !.nano = @ + 1]

MinOf(S) == CHOOSE i \in S : \A j \in S : i <= j

\* tNames.every((name) => DB.hasValue(name, colName, val)): "true", "false", or
\* "throw" when the first table that decides is not hashed on colName
EveryHasValue(d, tNames, colName, val) ==
  Bind({i \in 1..Len(tNames) :
          \/ ~isTableHashed(d, tNames[i], colName)
          \/ ~hasValue(d, tNames[i], colName, val)},
       LAMBDA stop:
         IF stop = {} THEN "true"
         ELSE IF ~isTableHashed(d, tNames[MinOf(stop)], colName) THEN "throw"
         ELSE "false")

\* the records of the first temporary table that all the others hold (by _id),
\* or all of them when it is the only one, inserted into target
MergeTempTables(d, tempTables, target) ==
  IF d.error # "" THEN d
  ELSE ForEachRecord(
         LAMBDA a, rec:
           Bind(EveryHasValue(a.d, Tail(tempTables), IdKey, Get(rec, IdKey)),
                LAMBDA every:
                  IF every = "throw" THEN OnDb(a, Throw(a.d, "Table must be hashed first"))
                  ELSE IF every = "true"
                  THEN OnDb(a, insertUniqueRecordsById(a.d, target, <<rec>>))
                  ELSE a),
         [d |-> d, x |-> <<>>], tempTables[1]).d

DropAll(d, tNames) == FoldLeft(LAMBDA acc, t: drop(acc, t), d, tNames)

\* one turn of `for (const op of ops)` for the simple operations of tName;
\* acc.x is tempTables
simplifyOp(acc, tName, op) ==
  IF Failed(acc) THEN acc
  ELSE Bind(addTable(AfterNanoid(acc.d), nanoid(acc.d), getTableKeys(acc.d, tName)),
            LAMBDA d2:
              ForEachFromHash(
                LAMBDA a, rec:
                  OnDb(a, insertUniqueRecordsById(a.d, nanoid(acc.d), <<rec>>)),
                [d |-> IF ~isTableHashed(d2, tName, ColKey(op.lhs.name))
                       THEN hashTable(d2, tName, ColKey(op.lhs.name), TRUE) ELSE d2,
                 x |-> Append(acc.x, nanoid(acc.d))],
                tName, ColKey(op.lhs.name), op.operator, op.rhsVal))

\* one turn of `for (const tName of simpleTables)`; s.x is tableNameMap
simplifyTable(s, term, tName) ==
  IF Failed(s) THEN s
  ELSE IF ~TableExists(s.d, tName) THEN OnDb(s, Throw(AfterNanoid(s.d), "TypeError"))
  ELSE Bind(FoldLeft(LAMBDA acc, op: simplifyOp(acc, tName, op),
                     [d |-> addTable(AfterNanoid(s.d), nanoid(s.d), getTableKeys(s.d, tName)),
                      x |-> <<>>],
                     simpleOps(term, tName)),
            LAMBDA temps:
              [d |-> DropAll(MergeTempTables(temps.d, temps.x, nanoid(s.d)), temps.x),
               x |-> MapSet(s.x, tName, nanoid(s.d))])

\* the projection array built from the working table's columns and the term's
ProjFits(d, term, tempTableName) == Len(getTableKeys(d, tempTableName)) <= Len(term.cols)

proj(d, term, tempTableName) ==
  [index \in 1..Len(getTableKeys(d, tempTableName)) |->
     [colNameDst |-> getTableKeys(d, tempTableName)[index],
      srcTName |-> term.cols[index].parentTable,
      srcCName |-> term.cols[index].name]]

\* joinInto skipping, for a table joined with itself, the records whose two
\* provenance ids are equal
joinIntoSkippingEqualIds(s, tTableName, src1, src2, pairOp, tProj) ==
  IF ~TableExists(s.d, src1) \/ ~TableExists(s.d, src2) THEN OnDb(s, Throw(s.d, "TypeError"))
  ELSE Bind(ForEachHashJoin(
              LAMBDA a, joinedRec:
                IF src1 = src2 /\ Get(joinedRec, IdOf(src1)) = Get(joinedRec, IdOf(src2))
                THEN a
                ELSE OnDb(a, insertRecords(a.d, tTableName, <<joinedRec>>)),
              s, src1, ColKey(pairOp.lhs.name), src2, ColKey(pairOp.rhsCol.name),
              tProj, pairOp.operator, TRUE),
            LAMBDA joined: OnDb(joined, hashTable(joined.d, tTableName, IdKey, TRUE)))

\* the hash join of one pairOp into its temporary table tTableName
joinInto(s, tTableName, src1, src2, pairOp, tProj) ==
  IF ~TableExists(s.d, src1) \/ ~TableExists(s.d, src2) THEN OnDb(s, Throw(s.d, "TypeError"))
  ELSE Bind(ForEachHashJoin(
              LAMBDA a, joinedRec:
                IF src1 = src2 /\ Get(joinedRec, IdOf(src1)) # Get(joinedRec, IdOf(src2))
                THEN a
                ELSE OnDb(a, insertRecords(a.d, tTableName, <<joinedRec>>)),
              s, src1, ColKey(pairOp.lhs.name), src2, ColKey(pairOp.rhsCol.name),
              tProj, pairOp.operator, TRUE),
            LAMBDA joined: OnDb(joined, hashTable(joined.d, tTableName, IdKey, TRUE)))

\* one turn of `for (const pairOp of pairOps)`; acc.x is tempNames
joinPairOp(acc, term, tableNameMap, projection, pairOp) ==
  IF Failed(acc) THEN acc
  ELSE IF \/ ~HasGroupedCols(term, pairOp.lhs.parentTable)
          \/ ~HasGroupedCols(term, pairOp.rhsCol.parentTable)
  THEN OnDb(acc, Throw(AfterNanoid(acc.d), "TypeError"))
  ELSE IF \/ pairOp.lhs.parentTable \notin DOMAIN tableNameMap
          \/ pairOp.rhsCol.parentTable \notin DOMAIN tableNameMap
  THEN OnDb(acc, Throw(AfterNanoid(acc.d), "TypeError"))
  ELSE joinInto([d |-> addTable(AfterNanoid(acc.d), nanoid(acc.d),
                                groupedCols(term, pairOp.lhs.parentTable)
                                  \o groupedCols(term, pairOp.rhsCol.parentTable)),
                 x |-> Append(acc.x, nanoid(acc.d))],
                nanoid(acc.d),
                tableNameMap[pairOp.lhs.parentTable],
                tableNameMap[pairOp.rhsCol.parentTable],
                pairOp,
                Filter(LAMBDA p: p.srcTName \in {pairOp.lhs.parentTable,
                                                 pairOp.rhsCol.parentTable},
                       projection))

\* the composite table of a pair, from the temporary tables of its operations
compositeTable(temps, term, compositeId, t1, t2) ==
  IF Failed(temps) THEN temps.d
  ELSE DropAll(
         hashTable(
           hashTable(
             MergeTempTables(
               addTable(temps.d, compositeId, groupedCols(term, t1) \o groupedCols(term, t2)),
               temps.x, compositeId),
             compositeId, IdOf(t1), TRUE),
           compositeId, IdOf(t2), TRUE),
         temps.x)

\* one turn of `for (const compositeId of compositeOps.keys())`
joinPair(d, term, tableNameMap, projection, compositeId) ==
  IF d.error # "" THEN d
  ELSE compositeTable(
         FoldLeft(LAMBDA acc, pairOp:
                    joinPairOp(acc, term, tableNameMap, projection, pairOp),
                  [d |-> d, x |-> <<>>], compositeOps(term, compositeId)),
         term, compositeId,
         compositeOps(term, compositeId)[1].lhs.parentTable,
         compositeOps(term, compositeId)[1].rhsCol.parentTable)

(***************************************************************************)
(* Join trees                                                              *)
(***************************************************************************)
\* joinMap.get(t): every composite id pushes itself onto the lists of both of
\* its tables (twice onto the same list for a pair of a table with itself)
joinMap(term, t) ==
  FoldLeft(LAMBDA acc, compositeId:
             acc \o (IF ParsePair(compositeId)[1] = t THEN <<compositeId>> ELSE <<>>)
                 \o (IF ParsePair(compositeId)[2] = t THEN <<compositeId>> ELSE <<>>),
           <<>>, compositeKeys(term))

NullTree == [isNull |-> TRUE, id |-> <<>>, children |-> <<>>]

\* the node built for id (null when id was taken before) and the ids left
RECURSIVE constructJoinTableTree(_, _, _)
constructJoinTableTree(term, id, ids) ==
  IF id \notin ids THEN [node |-> NullTree, ids |-> ids]
  ELSE LET pair == ParsePair(id)
           r == FoldLeft(
                  LAMBDA acc, cId:
                    LET c == constructJoinTableTree(term, cId, acc.ids)
                    IN [children |-> IF c.node.isNull THEN acc.children
                                     ELSE Append(acc.children, c.node),
                        ids |-> c.ids],
                  [children |-> <<>>, ids |-> ids \ {id}],
                  joinMap(term, pair[1]) \o joinMap(term, pair[2]))
       IN [node |-> [isNull |-> FALSE, id |-> id, children |-> r.children],
           ids |-> r.ids]

\* `for (const id of ids)`: a Set iteration skips the ids deleted meanwhile
trees(term) ==
  FoldLeft(LAMBDA acc, id:
             LET c == constructJoinTableTree(term, id, acc.ids)
             IN IF c.node.isNull THEN acc
                ELSE [trees |-> Append(acc.trees, c.node), ids |-> c.ids],
           [trees |-> <<>>, ids |-> Range(compositeKeys(term))],
           compositeKeys(term)).trees

independentSimpleOps(term) ==
  Filter(LAMBDA tName: \A i \in 1..Len(compositeKeys(term)) :
                          tName \notin Range(ParsePair(compositeKeys(term)[i])),
         simpleKeys(term))

\* parentTables.filter((parentTable) => childTables.includes(parentTable))[0]
intersectionTable(parentId, cName) ==
  LET common == Filter(LAMBDA parentTable: parentTable \in Range(ParsePair(cName)),
                       ParsePair(parentId))
  IN IF common = <<>> THEN <<>> ELSE common[1]

\* The callback given to childrenTables.every has no return statement: it
\* evaluates DB.hasValue for the first child and yields undefined, every() is
\* false for each parent record, results stays empty, and the parent table is
\* cleared and rehashed.
RECURSIVE getCommonTreeVals(_, _)
getCommonTreeVals(d, tree) ==
  IF d.error # "" \/ tree.children = <<>> THEN d
  ELSE Bind(ForEachRecord(
              LAMBDA a, parentRec:
                IF ~isTableHashed(a.d, tree.children[1].id,
                                  IdOf(intersectionTable(tree.id, tree.children[1].id)))
                THEN OnDb(a, Throw(a.d, "Table must be hashed first"))
                ELSE a,
              [d |-> FoldLeft(LAMBDA acc, child: getCommonTreeVals(acc, child),
                              d, tree.children),
               x |-> <<>>],
              tree.id),
            LAMBDA results:
              FoldLeft(LAMBDA acc, t: hashTable(acc, tree.id, IdOf(t), TRUE),
                       insertRecords(clearTable(results.d, tree.id), tree.id, results.x),
                       ParsePair(tree.id)))

independentTables(term) ==
  noOps(term) \o independentSimpleOps(term)
    \o [i \in 1..Len(trees(term)) |-> trees(term)[i].id]

\* blockJoinIndependentTables dropping the table it copied, as the loop of its
\* other branch drops the left-hand table
blockJoinDroppingSource(d, term, independent) ==
  IF d.error # "" THEN [d |-> d, x |-> <<>>]
  ELSE IF Len(independent) # 1 THEN [d |-> Throw(d, "TypeError"), x |-> <<>>]
  ELSE IF ~TableExists(d, independent[1])
  THEN [d |-> Throw(AfterNanoid(d), "TypeError"), x |-> <<>>]
  ELSE Bind(ForEachRecord(
              LAMBDA a, finalRec:
                OnDb(a, insertUniqueRecordsById(a.d, nanoid(d),
                                                <<addRecordAsId(deleteIds(finalRec))>>)),
              [d |-> addTable(AfterNanoid(d), nanoid(d),
                              [i \in 1..Len(term.cols) |-> term.cols[i].name]),
               x |-> nanoid(d)],
              independent[1]),
            LAMBDA copied: OnDb(copied, drop(copied.d, independent[1])))

\* getNonIdCols has no return statement: it yields undefined, and spreading
\* undefined is a TypeError, so only the single-table branch completes.
\* The result is [d, x]: x names the final temporary table.
blockJoinIndependentTables(d, term, independent) ==
  IF d.error # "" THEN [d |-> d, x |-> <<>>]
  ELSE IF Len(independent) # 1 THEN [d |-> Throw(d, "TypeError"), x |-> <<>>]
  ELSE IF ~TableExists(d, independent[1])
  THEN [d |-> Throw(AfterNanoid(d), "TypeError"), x |-> <<>>]
  ELSE ForEachRecord(
         LAMBDA a, finalRec:
           OnDb(a, insertUniqueRecordsById(a.d, nanoid(d),
                                           <<addRecordAsId(deleteIds(finalRec))>>)),
         [d |-> addTable(AfterNanoid(d), nanoid(d),
                         [i \in 1..Len(term.cols) |-> term.cols[i].name]),
          x |-> nanoid(d)],
         independent[1])

\* the composite joins of the term, pair after pair
joinPairs(simplified, term, tempTableName) ==
  IF Failed(simplified) THEN simplified.d
  ELSE IF ~ProjFits(simplified.d, term, tempTableName)
  THEN Throw(simplified.d, "TypeError")
  ELSE FoldLeft(LAMBDA acc, compositeId:
                  joinPair(acc, term, simplified.x,
                           proj(simplified.d, term, tempTableName), compositeId),
                simplified.d, compositeKeys(term))

\* emit without clearing the working table first
emitWithoutClear(final, term, tempTableName, resultTableName) ==
  IF Failed(final) THEN final.d
  ELSE DropAll(
         drop(ForEachRecord(
                LAMBDA a, finalRec:
                  OnDb(a, insertUniqueRecordsById(
                            insertUniqueRecordsById(a.d, tempTableName, <<finalRec>>),
                            resultTableName, <<finalRec>>)),
                final, final.x).d,
              final.x),
         compositeKeys(term))

\* the final temporary table moved into the working and the result table, and
\* the final and the composite tables dropped
emit(final, term, tempTableName, resultTableName) ==
  IF Failed(final) THEN final.d
  ELSE DropAll(
         drop(ForEachRecord(
                LAMBDA a, finalRec:
                  OnDb(a, insertUniqueRecordsById(
                            insertUniqueRecordsById(a.d, tempTableName, <<finalRec>>),
                            resultTableName, <<finalRec>>)),
                OnDb(final, clearTable(final.d, tempTableName)), final.x).d,
              final.x),
         compositeKeys(term))

\* the branch of executeTerm for a term that is not SELECT *
execute(d, term, tempTableName, resultTableName) ==
  emit(blockJoinIndependentTables(
         FoldLeft(LAMBDA acc, tree: getCommonTreeVals(acc, tree),
                  joinPairs(FoldLeft(LAMBDA s, tName: simplifyTable(s, term, tName),
                                     [d |-> d, x |-> [t \in Range(term.tables) |-> t]],
                                     simpleKeys(term)),
                            term, tempTableName),
                  trees(term)),
         term, independentTables(term)),
       term, tempTableName, resultTableName)

\* executeTerm: the DB after it, and the number of records it added to the
\* result table (delta)
executeTerm(d, term, tempTableName, resultTableName) ==
  Bind(IF Len(term.cols) = 1
       THEN executeSelectAll(d, term, tempTableName, resultTableName)
       ELSE execute(d, term, tempTableName, resultTableName),
       LAMBDA d1:
         [d |-> d1,
          delta |-> IF d1.error # "" THEN 0
                    ELSE getNumberOfEntries(d1, resultTableName)
                           - getNumberOfEntries(d, resultTableName)])

createRecursiveTable(d, withDecl) == addTable(d, withDecl.name, withDecl.columns)

\* LoopContinues going on after a pass that added nothing
LoopContinuesOnZero(delta) == delta >= 0

\* LoopContinues leaving the loop after its first turn
LoopStopsAfterFirstTurn(delta) == FALSE

\* the condition of the do-while loop of executeSingleQuery
LoopContinues(delta) == delta > 0

\* executeSingleQuery up to its loop: the working and the result table, then
\* the non-recursive term
beginQuery(d, q) ==
  Bind(createRecursiveTable(d, q.withDecl),
       LAMBDA d1:
         executeTerm(addTable(d1, q.resultTableName, getTableKeys(d1, q.withDecl.name)),
                     q.nonrecTerm, q.withDecl.name, q.resultTableName))

(***************************************************************************)
(* parseCsvFile (db/csvInit) with scale 100 and automatic column names.    *)
(* A line is the tuple of its comma-separated fields; every field is read  *)
(* as a string.                                                            *)
(***************************************************************************)
CsvColumns == <<"c1", "c2">>

\* res._id = JSON.stringify(res), taken before res has an _id
docOf(csvLine) ==
  Bind([i \in 1..Len(CsvColumns) |-> <<ColKey(CsvColumns[i]), Str(csvLine[i])>>],
       LAMBDA res: Put(res, IdKey, JSONstringify(res)))

parseCsvFile(d, tableName, lines) ==
  insertUniqueRecordsById(addTable(d, tableName, CsvColumns), tableName,
                          [i \in 1..Len(lines) |-> docOf(lines[i])])

(***************************************************************************)
(* Queries, as the parser hands them to the evaluator.                     *)
(***************************************************************************)
WithT == [name |-> <<"t">>, columns |-> <<"c1", "c2">>]

SelectAllFromA ==
  [cols |-> <<Star>>, tables |-> << <<"a">> >>, hasOps |-> FALSE, ops |-> <<>>]

\* WITH RECURSIVE t(c1,c2) AS (SELECT * FROM a UNION SELECT a.c1, t.c2 FROM a, t
\*   WHERE t.c1 = a.c2 AND t.c2 > t.c1 AND a.c2 > a.c1) SELECT * INTO n FROM t
ReadmeQuery ==
  [withDecl |-> WithT,
   nonrecTerm |-> SelectAllFromA,
   recTerm |-> [cols |-> <<Col("a", "c1"), Col("t", "c2")>>,
                tables |-> << <<"a">>, <<"t">> >>,
                hasOps |-> TRUE,
                ops |-> <<OpCol(Col("t", "c1"), "=", Col("a", "c2")),
                          OpCol(Col("t", "c2"), ">", Col("t", "c1")),
                          OpCol(Col("a", "c2"), ">", Col("a", "c1"))>>],
   resultTableName |-> <<"n">>]

\* ... UNION SELECT a.c1, t.c2 FROM a, t WHERE t.c1 = a.c2 ...
ClosureQuery ==
  [withDecl |-> WithT,
   nonrecTerm |-> SelectAllFromA,
   recTerm |-> [cols |-> <<Col("a", "c1"), Col("t", "c2")>>,
                tables |-> << <<"a">>, <<"t">> >>,
                hasOps |-> TRUE,
                ops |-> <<OpCol(Col("t", "c1"), "=", Col("a", "c2"))>>],
   resultTableName |-> <<"n">>]

\* ... UNION SELECT a.c1, a.c2 FROM a WHERE a.c1 = 1 ...
SimplePredicateQuery ==
  [withDecl |-> WithT,
   nonrecTerm |-> SelectAllFromA,
   recTerm |-> [cols |-> <<Col("a", "c1"), Col("a", "c2")>>,
                tables |-> << <<"a">> >>,
                hasOps |-> TRUE,
                ops |-> <<OpVal(Col("a", "c1"), "=", Num(1))>>],
   resultTableName |-> <<"n">>]

\* ... UNION SELECT a.c1, t.c2 FROM a, t ...
CrossProductQuery ==
  [withDecl |-> WithT,
   nonrecTerm |-> SelectAllFromA,
   recTerm |-> [cols |-> <<Col("a", "c1"), Col("t", "c2")>>,
                tables |-> << <<"a">>, <<"t">> >>,
                hasOps |-> FALSE,
                ops |-> <<>>],
   resultTableName |-> <<"n">>]

Queries == {ReadmeQuery, ClosureQuery, SimplePredicateQuery, CrossProductQuery}

(***************************************************************************)
(* The driver: a CSV file is loaded into table a, then executeSingleQuery  *)
(* runs one query.  Its steps are the part before the loop (StartQuery)    *)
(* and one turn of the do-while loop (RecursivePass), which on the last    *)
(* turn runs on to the drop of the working table and the return.           *)
(*   pc               "idle", "loaded", "loop", "done" (returned), "failed" *)
(*                    (left by an exception)                               *)
(*   recordsInserted  the variable of executeSingleQuery                   *)
(*   passes           the number of turns of the loop so far               *)
(*   before           the table names of the catalog when the query began  *)
(*   out.rBefore      the records of the result table before the last step *)
(***************************************************************************)
MaxValue == 4
MaxCsvRows == 3
MaxPasses == 5

CsvLines == (1..MaxValue) \X (1..MaxValue)

LineLess(p, q) == p[1] < q[1] \/ (p[1] = q[1] /\ p[2] < q[2])

RECURSIVE SortedLines(_)
SortedLines(S) ==
  IF S = {} THEN <<>>
  ELSE Bind(CHOOSE p \in S : \A q \in S : p = q \/ LineLess(p, q),
            LAMBDA first: <<first>> \o SortedLines(S \ {first}))

Reverse(seq) == [i \in 1..Len(seq) |-> seq[Len(seq) + 1 - i]]

\* the files of at most MaxCsvRows different lines, in ascending or descending
\* order, with the last line possibly written twice
CsvFiles ==
  {(IF rev THEN Reverse(SortedLines(S)) ELSE SortedLines(S))
     \o (IF dup THEN <<CHOOSE p \in S : \A q \in S : p = q \/ LineLess(p, q)>> ELSE <<>>) :
   S \in {T \in SUBSET CsvLines : T # {} /\ Cardinality(T) <= MaxCsvRows},
   rev \in BOOLEAN, dup \in BOOLEAN}

QueryInit ==
  /\ db = NewDB
  /\ out = [op |-> "new", rBefore |-> <<>>]
  /\ Idle

LoadCsv(lines) ==
  /\ pc = "idle"
  /\ pc' = "loaded"
  /\ db' = parseCsvFile(db, <<"a">>, lines)
  /\ out' = [op |-> "parseCsvFile", rBefore |-> <<>>]
  /\ UNCHANGED <<query, recordsInserted, passes, before>>

StartQuery(q) ==
  /\ pc = "loaded"
  /\ query' = q
  /\ before' = DOMAIN db.tables
  /\ Bind(beginQuery(db, q),
          LAMBDA r: /\ db' = r.d
                    /\ pc' = IF r.d.error # "" THEN "failed" ELSE "loop")
  /\ out' = [op |-> "nonrecTerm", rBefore |-> <<>>]
  /\ UNCHANGED <<recordsInserted, passes>>

RecursivePass ==
  /\ pc = "loop"
  /\ passes < MaxPasses
  /\ passes' = passes + 1
  /\ Bind(executeTerm(db, query.recTerm, query.withDecl.name, query.resultTableName),
          LAMBDA r:
            /\ recordsInserted' = r.delta
            /\ db' = IF r.d.error # "" \/ LoopContinues(r.delta) THEN r.d
                     ELSE drop(r.d, query.withDecl.name)
            /\ pc' = IF r.d.error # "" THEN "failed"
                     ELSE IF LoopContinues(r.delta) THEN "loop" ELSE "done")
  /\ out' = [op |-> "recTerm", rBefore |-> StoredRecords(db, query.resultTableName)]
  /\ UNCHANGED <<query, before>>

QueryNext ==
  \/ \E lines \in CsvFiles : LoadCsv(lines)
  \/ \E q \in Queries : StartQuery(q)
  \/ RecursivePass

SpecQuery == QueryInit /\ [][QueryNext]_vars

\* A turn of the loop is the step of QueryNext that counts a pass.  The loop is
\* sequential code: a turn that can run does run.
LoopTurn == pc = "loop" /\ passes < MaxPasses /\ passes' = passes + 1

SpecQueryFair == SpecQuery /\ WF_passes(LoopTurn)

(***************************************************************************)
(* Properties of executeSingleQuery                                        *)
(***************************************************************************)
\* the (c1, c2) rows of a table
RowsOf(d, tableName) ==
  {<<Get(rec, ColKey("c1")), Get(rec, ColKey("c2"))>> :
     rec \in Range(StoredRecords(d, tableName))}

\* the rows a CSV file of these lines loads
RowsOfLines(S) == {<<Str(p[1]), Str(p[2])>> : p \in S}

\* the least fixed point by naive iteration: A united with every (x, z) such
\* that (x, y) is in A and (y, z) is already in the result
ClosureStep(A, S) ==
  S \cup {<<pq[1][1], pq[2][2]>> : pq \in {x \in A \X S : x[1][2] = x[2][1]}}

RECURSIVE Close(_, _)
Close(A, S) == IF ClosureStep(A, S) = S THEN S ELSE Close(A, ClosureStep(A, S))

NaiveClosure(A) == Close(A, A)

ReadmeLines == {<<1, 2>>, <<2, 3>>, <<3, 4>>}
S1Lines == {<<1, 2>>, <<2, 3>>}

Returned == pc = "done"

\* C1: the README query on a = {(1,2),(2,3),(3,4)} leaves the result table n
\* holding exactly {(1,2),(2,3),(3,4),(1,3),(2,4),(1,4)}
C1_ReadmeResult ==
  (Returned /\ query = ReadmeQuery /\ RowsOf(db, <<"a">>) = RowsOfLines(ReadmeLines)) =>
     RowsOf(db, <<"n">>) =
       RowsOfLines({<<1, 2>>, <<2, 3>>, <<3, 4>>, <<1, 3>>, <<2, 4>>, <<1, 4>>})

\* C2: when the transitive-closure query has returned, the rows of the result
\* table are the least fixed point a naive closure computes from the rows of a
C2_ClosureIsLeastFixedPoint ==
  (Returned /\ query = ClosureQuery) =>
     RowsOf(db, <<"n">>) = NaiveClosure(RowsOf(db, <<"a">>))

\* S1: a = {(1,2),(2,3)} gave {(1,2),(2,3),(1,3)}
C2_Witness ==
  /\ Returned /\ query = ClosureQuery
  /\ RowsOf(db, <<"a">>) = RowsOfLines(S1Lines)
  /\ RowsOf(db, <<"n">>) = RowsOfLines({<<1, 2>>, <<2, 3>>, <<1, 3>>})

\* C3: executeSingleQuery always leaves its do-while loop, by its return or by
\* an exception
C3_Terminates == (pc = "loop") ~> (pc \in {"done", "failed"})

\* a query on a cyclic graph returned after three passes that kept re-deriving
\* rows the result table held
C3_Witness ==
  /\ Returned /\ passes >= 3
  /\ \E row \in RowsOf(db, <<"n">>) : row[1] = row[2]

\* C4: a pass removes no row from the result table and returns the number of
\* rows it added; the loop goes on after a pass exactly when that number is
\* positive, and it runs at least one pass; S1 takes exactly two passes
C4_MonotoneUntilZeroDelta ==
  /\ (pc \in {"loop", "done"} /\ out.op = "recTerm") =>
        /\ Range(out.rBefore) \subseteq Range(StoredRecords(db, query.resultTableName))
        /\ Len(out.rBefore) <= Len(StoredRecords(db, query.resultTableName))
        /\ recordsInserted
             = Len(StoredRecords(db, query.resultTableName)) - Len(out.rBefore)
        /\ (pc = "loop") = (recordsInserted > 0)
  /\ Returned => (passes >= 1 /\ recordsInserted = 0)
  /\ (Returned /\ query = ClosureQuery /\ RowsOf(db, <<"a">>) = RowsOfLines(S1Lines))
        => passes = 2

\* S1 returned: its second pass added nothing
C4_Witness ==
  /\ Returned /\ query = ClosureQuery /\ RowsOf(db, <<"a">>) = RowsOfLines(S1Lines)
  /\ passes = 2 /\ recordsInserted = 0
  /\ Len(out.rBefore) = 3

\* C5: when executeSingleQuery has returned or thrown, the catalog holds the
\* tables it held before the call and the result table, nothing else
C5_EphemeralTablesDropped ==
  pc \in {"done", "failed"} =>
     DOMAIN db.tables = before \cup {query.resultTableName}

\* the records of the working and the result table of the running query
QueryRecords ==
  Flatten([i \in 1..2 |->
             IF <<query.withDecl.name, query.resultTableName>>[i] \in DOMAIN db.tables
             THEN StoredRecords(db, <<query.withDecl.name, query.resultTableName>>[i])
             ELSE <<>>])

\* C8: every record of the working and the result table has for _id the JSON
\* text of the record without its _id keys, and no table stores two records of
\* equal content
C8_ContentAddressedIds ==
  pc \in {"loop", "done", "failed"} =>
     /\ \A rec \in Range(QueryRecords) : Get(rec, IdKey) = JSONstringify(deleteIds(rec))
     /\ \A t \in {query.withDecl.name, query.resultTableName} \cap DOMAIN db.tables :
          \A i, j \in 1..Len(StoredRecords(db, t)) :
             deleteIds(StoredRecords(db, t)[i]) = deleteIds(StoredRecords(db, t)[j]) => i = j

\* a pass of the join path left derived rows in the working and the result table
C8_Witness ==
  /\ pc = "loop" /\ query = ClosureQuery /\ passes >= 1
  /\ StoredRecords(db, <<"t">>) # <<>>
  /\ Len(StoredRecords(db, <<"n">>)) > Len(StoredRecords(db, <<"a">>))

(***************************************************************************)
(* hashJoin called twice with its operands exchanged, on tables of two     *)
(* columns a caller has filled.                                            *)
(***************************************************************************)
MaxCommuteRows == 2

CommuteCols == <<"c1", "c2">>
CommuteValues == {Str(1), Num(1), Str(2)}

\* dst x from A's column x, dst y from B's column y
CommuteProjection(A, x, B, y) ==
  << [colNameDst |-> "x", srcTName |-> A, srcCName |-> x],
     [colNameDst |-> "y", srcTName |-> B, srcCName |-> y] >>

\* the same projection for the exchanged call: B's column first
MirroredProjection(A, x, B, y) == Reverse(CommuteProjection(A, x, B, y))

CommuteInit ==
  /\ db = addTable(addTable(NewDB, <<"a">>, CommuteCols), <<"b">>, CommuteCols)
  /\ out = [op |-> "new"]
  /\ Idle

CommuteInsert(t, v1, v2) ==
  /\ pc = "idle"
  /\ Len(StoredRecords(db, t)) < MaxCommuteRows
  /\ db' = insertRecords(db, t, << << <<IdKey, NanoRecordId(t, Len(StoredRecords(db, t)))>>,
                                      <<ColKey("c1"), v1>>, <<ColKey("c2"), v2>> >> >>)
  /\ out' = [op |-> "insertRecords"]
  /\ pc' = pc
  /\ JoinFrame

\* hashJoin(A, x, B, y, proj, '=') and then hashJoin(B, y, A, x, mirrored, '=')
CommuteCall(A, x, B, y) ==
  /\ pc = "idle"
  /\ pc' = "joined"
  /\ Bind(hashJoin(db, A, ColKey(x), B, ColKey(y), CommuteProjection(A, x, B, y), "=", FALSE),
          LAMBDA r1:
            Bind(hashJoin([r1.d EXCEPT !.error = ""], B, ColKey(y), A, ColKey(x),
                          MirroredProjection(A, x, B, y), "=", FALSE),
                 LAMBDA r2:
                   /\ db' = [r2.d EXCEPT !.error = ""]
                   /\ out' = [op |-> "commute", t1 |-> A, c1 |-> x, t2 |-> B, c2 |-> y,
                              recs1 |-> r1.x, recs2 |-> r2.x,
                              error |-> <<r1.d.error, r2.d.error>>]))
  /\ JoinFrame

CommuteNext ==
  \/ \E t \in JoinTables, v1, v2 \in CommuteValues : CommuteInsert(t, v1, v2)
  \/ \E A, B \in JoinTables, x, y \in Range(CommuteCols) : CommuteCall(A, x, B, y)

SpecCommute == CommuteInit /\ [][CommuteNext]_vars

\* the records of a stream as objects: the multiset of their property sets
ObjectsOf(recs) == BagOf([i \in 1..Len(recs) |-> Range(recs[i])])

\* C11 as stated: for all tables A, B (A = B included) and columns x, y the two
\* equality hash joins with exchanged operands yield equal multisets of records
C11_HashJoinCommutes ==
  out.op = "commute" =>
     /\ out.error = <<"", "">>
     /\ ObjectsOf(out.recs1) = ObjectsOf(out.recs2)

\* C11 amended: the two equality hash joins with exchanged operands yield equal
\* multisets of records for two different tables, and for a table joined with
\* itself on one and the same column
C11_HashJoinCommutesDistinct ==
  (out.op = "commute" /\ (out.t1 # out.t2 \/ out.c1 = out.c2)) =>
     /\ out.error = <<"", "">>
     /\ ObjectsOf(out.recs1) = ObjectsOf(out.recs2)

\* two different full tables joined on different columns gave several records,
\* one of them out of a string and a number
C11_Witness ==
  /\ out.op = "commute" /\ out.t1 # out.t2 /\ out.c1 # out.c2
  /\ Len(out.recs1) >= 2 /\ Len(out.recs1) < MaxCommuteRows * MaxCommuteRows
  /\ \E i \in 1..Len(out.recs1) :
        Get(out.recs1[i], ColKey("x")) = Str(1) /\ Get(out.recs1[i], ColKey("y")) = Num(1)

(***************************************************************************)
(* The composite joins of a recursive term, observed before the join trees *)
(* are reduced: execute up to the end of its loop over compositeOps.       *)
(***************************************************************************)
compositePhase(d, term, tempTableName) ==
  joinPairs(FoldLeft(LAMBDA s, tName: simplifyTable(s, term, tName),
                     [d |-> d, x |-> [t \in Range(term.tables) |-> t]],
                     simpleKeys(term)),
            term, tempTableName)

CompositeJoins ==
  /\ pc = "loop"
  /\ pc' = "paired"
  /\ db' = compositePhase(db, query.recTerm, query.withDecl.name)
  /\ out' = [op |-> "compositeJoins", rBefore |-> <<>>]
  /\ UNCHANGED <<query, recordsInserted, passes, before>>

PairNext ==
  \/ \E lines \in CsvFiles : LoadCsv(lines)
  \/ StartQuery(ReadmeQuery)
  \/ CompositeJoins

SpecPair == QueryInit /\ [][PairNext]_vars

\* the pair tables of a table with itself
SelfPairTables(d) == {id \in DOMAIN d.tables : id[1] = "[]" /\ id[2] = id[3]}

\* the rows the predicate of a self pair selects: for every pair (r1, r2) of
\* records of the table with r1.lhs op r2.rhs, the projected columns of r1, the
\* composite id, and the one provenance property, which holds r2's id
SelfPairRows(d, term, tempTableName, id) ==
  LET t == <<id[2]>>
      op == compositeOps(term, id)[1]
      pairs == Filter(LAMBDA pr:
                        IF op.operator = "="
                        THEN JsLooseEq(Get(pr[1], ColKey(op.lhs.name)),
                                       Get(pr[2], ColKey(op.rhsCol.name)))
                        ELSE JsGreater(Get(pr[1], ColKey(op.lhs.name)),
                                       Get(pr[2], ColKey(op.rhsCol.name))),
                      AllPairs(StoredRecords(d, t), StoredRecords(d, t)))
      cols == {i \in 1..Len(getTableKeys(d, tempTableName)) : term.cols[i].parentTable = t}
  IN [k \in 1..Len(pairs) |->
        {<<ColKey(getTableKeys(d, tempTableName)[i]),
           Get(pairs[k][1], ColKey(term.cols[i].name))>> : i \in cols}
        \cup {<<IdKey, PairId(Get(pairs[k][1], IdKey), Get(pairs[k][2], IdKey))>>,
              <<IdOf(t), Get(pairs[k][2], IdKey)>>}]

MaxIndexRows == 5

IndexValues == {Str(1), Str(2), Num(2), Str(10)}
LookupValues == IndexValues \cup {Num(1), Str(3)}

IndexInit ==
  /\ db = addTable(NewDB, <<"a">>, CatCols)
  /\ out = [op |-> "new"]
  /\ Idle

IndexInsert(v) ==
  /\ pc = "idle"
  /\ Len(StoredRecords(db, <<"a">>)) < MaxIndexRows
  /\ db' = insertRecords(db, <<"a">>,
                         << << <<IdKey, NanoRecordId(<<"a">>, Len(StoredRecords(db, <<"a">>)))>>,
                               <<ColKey("c1"), v>> >> >>)
  /\ out' = [op |-> "insertRecords"]
  /\ pc' = pc
  /\ JoinFrame

IndexHash ==
  /\ pc = "idle"
  /\ db' = hashTable(db, <<"a">>, ColKey("c1"), TRUE)
  /\ out' = [op |-> "hashTable"]
  /\ pc' = pc
  /\ JoinFrame

\* getRecsFromHash(a, c1, op, rhs) consumed to its end, then hasValue(a, c1, rhs)
IndexLookup(op, rhs) ==
  /\ pc = "idle"
  /\ isTableHashed(db, <<"a">>, ColKey("c1"))
  /\ pc' = "read"
  /\ Bind(getRecsFromHash(db, <<"a">>, ColKey("c1"), op, rhs),
          LAMBDA r:
            /\ db' = [r.d EXCEPT !.error = ""]
            /\ out' = [op |-> "lookup", operator |-> op, rhs |-> rhs,
                       recs |-> r.x, error |-> r.d.error,
                       has |-> hasValue(db, <<"a">>, ColKey("c1"), rhs),
                       fresh |-> IndexFresh(db, <<"a">>, ColKey("c1"))])
  /\ JoinFrame

IndexNext ==
  \/ \E v \in IndexValues : IndexInsert(v)
  \/ IndexHash
  \/ \E op \in {"=", ">"}, rhs \in LookupValues : IndexLookup(op, rhs)

SpecIndex == IndexInit /\ [][IndexNext]_vars

\* the stored records of a table whose column satisfies a test, in scan order
RecordsWhere(d, tableName, colName, Test(_)) ==
  SelectSeq(StoredRecords(d, tableName), LAMBDA rec: Test(Get(rec, colName)))

\* C13: on a current index, getRecsFromHash with '=' yields exactly the records
\* whose column is rhs and with '>' exactly those whose column is greater than
\* rhs, each once; a miss gives an empty stream and hasValue false, no error
C13_LookupExact ==
  (out.op = "lookup" /\ out.fresh) =>
     /\ out.error = ""
     /\ out.operator = "=" =>
          BagOf(out.recs) = BagOf(RecordsWhere(db, <<"a">>, ColKey("c1"), LAMBDA v: v = out.rhs))
     /\ out.operator = ">" =>
          BagOf(out.recs) = BagOf(RecordsWhere(db, <<"a">>, ColKey("c1"),
                                               LAMBDA v: JsGreater(v, out.rhs)))
     /\ out.has = (RecordsWhere(db, <<"a">>, ColKey("c1"), LAMBDA v: v = out.rhs) # <<>>)

\* a '>' lookup on a table of three pages yielded records of two pages, and a
\* string that is the greater text but the smaller number was compared
C13_Witness ==
  /\ out.op = "lookup" /\ out.fresh /\ out.operator = ">" /\ out.rhs = Str(10)
  /\ Len(db.tables[<<"a">>]) = 3
  /\ Len(out.recs) >= 3
  /\ \E i \in 1..Len(out.recs) : Get(out.recs[i], ColKey("c1")) = Str(2)

\* the index on (t, c) maps every value to exactly the locators of the stored
\* records of t that hold it in column c
IndexCovers(d, t, c) ==
  LET ix == d.tableHashes[t][c]
      locs == StoredLocators(d, t)
  IN /\ \A i, j \in 1..Len(ix) : ix[i][1] = ix[j][1] => i = j
     /\ \A i \in 1..Len(ix) :
          /\ ix[i][2] # <<>>
          /\ \A k \in 1..Len(ix[i][2]) :
               /\ ix[i][2][k] \in Range(locs)
               /\ Get(RecordAt(d, ix[i][2][k]), c) = ix[i][1]
     /\ \A loc \in Range(locs) :
          Cardinality({ik \in (1..Len(ix)) \X (1..maxNoOfRecsPerFile * Len(d.tables[t])) :
                         ik[2] <= Len(ix[ik[1]][2]) /\ ix[ik[1]][2][ik[2]] = loc}) = 1

\* C14: immediately after hashTable(t, c, true) the index on (t, c) maps each
\* value to exactly the locators of the records of t that hold it: every
\* record is covered by one locator and each locator resolves to such a record
C14_FreshIndexCovers ==
  (out[1] = "hashTable" /\ TableExists(db, out[2])) =>
     /\ db.error = ""
     /\ isTableHashed(db, out[2], out[3])
     /\ IndexCovers(db, out[2], out[3])

\* c1 of a table of two pages was hashed: one value has a locator on each page
C14_Witness ==
  /\ out = <<"hashTable", <<"a">>, ColKey("c1")>>
  /\ Len(db.tables[<<"a">>]) = 2
  /\ \E i \in 1..Len(db.tableHashes[<<"a">>][ColKey("c1")]) :
        LET locs == db.tableHashes[<<"a">>][ColKey("c1")][i][2]
        IN Len(locs) = 2 /\ locs[1][1] # locs[2][1]
  /\ Len(db.tableHashes[<<"a">>][ColKey("c1")]) = 2

\* C15: lookups in a hash index compare with loose equality: hasValue and
\* getRecsFromHash with '=' find the records whose stored value is the string
\* of the digits of the number looked up, and the reverse
C15_LooseLookup ==
  (out.op = "lookup" /\ out.fresh /\ out.operator = "=") =>
     /\ out.error = ""
     /\ BagOf(out.recs) = BagOf(RecordsWhere(db, <<"a">>, ColKey("c1"),
                                             LAMBDA v: JsLooseEq(v, out.rhs)))
     /\ out.has = (RecordsWhere(db, <<"a">>, ColKey("c1"),
                                LAMBDA v: JsLooseEq(v, out.rhs)) # <<>>)

(***************************************************************************)
(* The places an operator can be supplied, each called with any operator   *)
(* text on tables a caller has filled.                                     *)
(*   out.site    the function called                                       *)
(*   out.error   "" or the message of the exception it threw               *)
(*   out.recs    the records it yielded (for constructFilter: the records  *)
(*               of a that pass the filter it returned)                    *)
(***************************************************************************)
Operators == {"=", ">", "<", ">="}

OperatorFrame(site, operator, error, recs) ==
  /\ pc = "idle"
  /\ pc' = "joined"
  /\ out' = [op |-> "operator", site |-> site, operator |-> operator,
             error |-> error, recs |-> recs]
  /\ JoinFrame

\* new Operation(`a.c1 ${operator} 1`)
NewOperation(operator) ==
  /\ db' = db
  /\ OperatorFrame("Operation", operator,
                   IF OperationThrows(operator) THEN "Unsupported operator" ELSE "", <<>>)

\* the term whose only operation is t.c1 operator "1"
OneOpTerm(t, operator) ==
  [cols |-> <<Star>>, tables |-> << <<"a">> >>, hasOps |-> TRUE,
   ops |-> <<OpVal(Col(t, "c1"), operator, Str(1))>>]

\* constructFilter(ops, 'a') for an operation on a column of a or of b
ConstructFilterCall(t, operator) ==
  /\ db' = db
  /\ OperatorFrame("constructFilter", operator,
                   IF FilterThrows(db, OneOpTerm(t, operator), <<"a">>)
                   THEN "Unsupported operator" ELSE "",
                   IF FilterThrows(db, OneOpTerm(t, operator), <<"a">>) THEN <<>>
                   ELSE SelectSeq(StoredRecords(db, <<"a">>),
                                  LAMBDA rec: constructFilter(db, OneOpTerm(t, operator),
                                                              <<"a">>, rec)))

\* getRecsFromHash(a, c1, operator, "1") on the hashed column, consumed
GetRecsFromHashCall(operator) ==
  Bind(getRecsFromHash(hashTable(db, <<"a">>, ColKey("c1"), TRUE),
                       <<"a">>, ColKey("c1"), operator, Str(1)),
       LAMBDA r:
         /\ db' = [r.d EXCEPT !.error = ""]
         /\ OperatorFrame("getRecsFromHash", operator, r.d.error, r.x))

\* hashJoin(a, c1, b, c1, proj, operator), consumed
HashJoinWithOperator(operator) ==
  Bind(hashJoin(db, <<"a">>, ColKey("c1"), <<"b">>, ColKey("c1"),
                JoinProjection(<<"a">>, <<"b">>), operator, FALSE),
       LAMBDA r:
         /\ db' = [r.d EXCEPT !.error = ""]
         /\ OperatorFrame("hashJoin", operator, r.d.error, r.x))

OperatorNext ==
  \/ \E t \in JoinTables, v \in JoinValues : JoinInsert(t, v)
  \/ \E operator \in Operators : NewOperation(operator)
  \/ \E t \in {"a", "b"}, operator \in Operators : ConstructFilterCall(t, operator)
  \/ \E operator \in Operators : GetRecsFromHashCall(operator)
  \/ \E operator \in Operators : HashJoinWithOperator(operator)

SpecOperator == JoinInit /\ [][OperatorNext]_vars

\* C16: Operation construction, constructFilter, getRecsFromHash and hashJoin
\* each raise an error for an operator other than '=' and '>'
C16_UnsupportedOperatorThrows ==
  (out.op = "operator" /\ out.operator \notin {"=", ">"}) => out.error # ""

(***************************************************************************)
(* The catalog on an observed page buffer of capacity 1 or cacheOptions.max *)
(* (see NoteFetch), run side by side with the same catalog on a buffer     *)
(* that never evicts.  Every step performs one catalog operation on both.  *)
(*   db          the catalog on the bounded buffer; db.buf0 is its buffer  *)
(*               when the last operation began                             *)
(*   out.res     what the operation returned or yielded on db              *)
(*   out.ref     the catalog on the unbounded buffer                       *)
(*   out.refRes  what the operation returned or yielded on out.ref         *)
(***************************************************************************)
MaxBufNano == 4
MaxBufRows == 5

Unbounded == MaxBufNano + 1

ObservedDB(k) ==
  NewDB @@ [bufMax |-> k, fetches |-> 0, accesses |-> <<>>, recency |-> <<>>, buf0 |-> <<>>]

BeginOp(d) == [d EXCEPT !.fetches = 0, !.accesses = <<>>, !.buf0 = d.buf]

BufRecord(i) == << <<IdKey, Str(i)>>, <<ColKey("c1"), Str(i)>> >>

BufBatches == { <<BufRecord(1)>>, <<BufRecord(1), BufRecord(2), BufRecord(1)>> }

BufInit ==
  /\ \E k \in {1, cacheMax} : db = ObservedDB(k)
  /\ out = [op |-> "new", res |-> <<>>, ref |-> ObservedDB(Unbounded), refRes |-> <<>>]
  /\ Idle

\* one operation, given as the function Op from a DB to [d |-> the DB after
\* it, x |-> its result], performed on both catalogs
BufStep(name, Op(_)) ==
  /\ db.error = ""
  /\ Bind(Op(BeginOp(db)),
          LAMBDA r:
            Bind(Op(BeginOp(out.ref)),
                 LAMBDA rr:
                   /\ db' = r.d
                   /\ out' = [op |-> name, res |-> r.x, ref |-> rr.d, refRes |-> rr.x]))
  /\ CatFrame

BufAddTable ==
  /\ db.nano < MaxBufNano
  /\ BufStep("addTable", LAMBDA d: [d |-> addTable(d, <<"a">>, CatCols), x |-> <<>>])

BufInsertRecords(recs) ==
  /\ TableExists(db, <<"a">>)
  /\ db.nano + (Len(recs) + 1) \div maxNoOfRecsPerFile <= MaxBufNano
  /\ Len(StoredRecords(db, <<"a">>)) + Len(recs) <= MaxBufRows
  /\ BufStep("insertRecords", LAMBDA d: [d |-> insertRecords(d, <<"a">>, recs), x |-> <<>>])

BufInsertUnique(recs) ==
  /\ TableExists(db, <<"a">>)
  /\ db.nano + (Len(recs) + 1) \div maxNoOfRecsPerFile <= MaxBufNano
  /\ Len(StoredRecords(db, <<"a">>)) + Len(recs) <= MaxBufRows
  /\ BufStep("insertUniqueRecordsById",
             LAMBDA d: [d |-> insertUniqueRecordsById(d, <<"a">>, recs), x |-> <<>>])

BufClearTable ==
  /\ TableExists(db, <<"a">>)
  /\ BufStep("clearTable", LAMBDA d: [d |-> clearTable(d, <<"a">>), x |-> <<>>])

BufHashTable ==
  /\ TableExists(db, <<"a">>)
  /\ BufStep("hashTable", LAMBDA d: [d |-> hashTable(d, <<"a">>, ColKey("c1"), TRUE), x |-> <<>>])

BufDrop ==
  /\ TableExists(db, <<"a">>)
  /\ BufStep("drop", LAMBDA d: [d |-> drop(d, <<"a">>), x |-> <<>>])

BufDropAllTables ==
  BufStep("dropAllTables", LAMBDA d: [d |-> dropAllTables(d), x |-> <<>>])

\* getAllRecords consumed to its end
BufScan ==
  /\ TableExists(db, <<"a">>)
  /\ BufStep("getAllRecords", LAMBDA d: getAllRecords(d, <<"a">>))

BufLookup(op, rhs) ==
  /\ TableExists(db, <<"a">>)
  /\ isTableHashed(db, <<"a">>, ColKey("c1"))
  /\ BufStep("getRecsFromHash", LAMBDA d: getRecsFromHash(d, <<"a">>, ColKey("c1"), op, rhs))

BufHashJoin ==
  /\ TableExists(db, <<"a">>)
  /\ BufStep("hashJoin",
             LAMBDA d: hashJoin(d, <<"a">>, ColKey("c1"), <<"a">>, ColKey("c1"),
                                JoinProjection(<<"a">>, <<"a">>), "=", TRUE))

BufCount ==
  /\ TableExists(db, <<"a">>)
  /\ BufStep("getNumberOfEntries",
             LAMBDA d: [d |-> d, x |-> <<getNumberOfEntries(d, <<"a">>)>>])

BufNext ==
  \/ BufAddTable
  \/ \E recs \in BufBatches : BufInsertRecords(recs)
  \/ \E recs \in BufBatches : BufInsertUnique(recs)
  \/ BufClearTable
  \/ BufHashTable
  \/ BufDrop
  \/ BufDropAllTables
  \/ BufScan
  \/ \E op \in {"=", ">"} : BufLookup(op, Str(1))
  \/ BufHashJoin
  \/ BufCount

SpecBuffer == BufInit /\ [][BufNext]_vars

\* the first k elements of a sequence
Take(seq, k) == SubSeq(seq, 1, Min(k, Len(seq)))

\* C17: the buffer never holds more than k pages, and the pages it holds are
\* the k most recently admitted or got page ids among those it ever admitted,
\* the most recent first
C17_ResidentAreMostRecent ==
  /\ Len(db.buf) <= db.bufMax
  /\ db.buf = Take(db.recency, db.bufMax)

\* a buffer of two pages that has admitted four: a page it had evicted was
\* fetched again by a scan
C17_Witness ==
  /\ db.bufMax = cacheMax /\ Len(db.recency) >= cacheMax + 2
  /\ out.op = "getAllRecords" /\ db.fetches >= 1
  /\ \E i \in 1..Len(db.buf0) : db.buf0[i] \notin Range(db.buf)

\* what of a catalog is not its buffer
Stored(d) ==
  [pages |-> d.pages, tables |-> d.tables, tablePageSpaces |-> d.tablePageSpaces,
   tableCols |-> d.tableCols, tableHashes |-> d.tableHashes, nano |-> d.nano]

\* C18: on a buffer of capacity 1 or 2 no operation fails, every operation
\* returns what it returns on a buffer that never evicts and leaves the same
\* tables, and a scan yields every stored record once, page after page in the
\* order the pages were added and slot after slot within a page
C18_ResidencyIndependent ==
  /\ db.error = ""
  /\ out.res = out.refRes
  /\ Stored(db) = Stored(out.ref)
  /\ out.op = "getAllRecords" => out.res = StoredRecords(db, <<"a">>)

\* a scan of three pages through a buffer of one or two pages
C18_Witness ==
  /\ out.op = "getAllRecords"
  /\ Len(db.tables[<<"a">>]) = 3 /\ Len(db.tables[<<"a">>]) > db.bufMax
  /\ Len(out.res) = 5
  /\ db.fetches >= 1

\* the misses of an LRU buffer of capacity k holding resident (the most
\* recently used first) over a sequence of page accesses
RECURSIVE RefMisses(_, _, _)
RefMisses(resident, accesses, k) ==
  IF accesses = <<>> THEN 0
  ELSE IF Head(accesses) \in Range(resident)
  THEN RefMisses(<<Head(accesses)>> \o SelectSeq(resident, LAMBDA p: p # Head(accesses)),
                 Tail(accesses), k)
  ELSE 1 + RefMisses(Take(<<Head(accesses)>> \o resident, k), Tail(accesses), k)

\* C19: the number of addPage calls (waits) of an operation equals the number
\* of its page accesses that found the page not resident
C19_OneFetchPerMiss ==
  db.fetches = RefMisses(db.buf0, db.accesses, db.bufMax)

\* an operation on a buffer of one page with at least two misses and a hit
C19_Witness ==
  /\ db.bufMax = 1
  /\ db.fetches >= 2
  /\ Len(db.accesses) > db.fetches
  /\ out.op \in {"insertRecords", "hashJoin"}

TableWrites == {"insertRecords", "insertUniqueRecordsById", "clearTable"}

\* C20: after a completed insertRecords, insertUniqueRecordsById or clearTable
\* the top of the table's free-space queue has at least the spacesLeft of every
\* entry of the queue, and its spacesLeft is the free space of its page
C20_QueueTopCurrent ==
  (out.op \in TableWrites /\ db.error = "") =>
     /\ db.tablePageSpaces[<<"a">>] # <<>>
     /\ \A i \in 1..Len(db.tablePageSpaces[<<"a">>]) :
           QueuePeek(db.tablePageSpaces[<<"a">>]).spacesLeft
              >= db.tablePageSpaces[<<"a">>][i].spacesLeft
     /\ QueuePeek(db.tablePageSpaces[<<"a">>]).spacesLeft
           = spacesLeft(db.pages[QueuePeek(db.tablePageSpaces[<<"a">>]).pageId])

\* an insert into a table of three pages, emptied before, left a full page
\* and a page that has room below a top that has room
C20_Witness ==
  /\ out.op \in {"insertRecords", "insertUniqueRecordsById"} /\ db.error = ""
  /\ Len(db.tablePageSpaces[<<"a">>]) = 3
  /\ QueuePeek(db.tablePageSpaces[<<"a">>]).spacesLeft > 0
  /\ \E i, j \in 2..3 :
        /\ db.tablePageSpaces[<<"a">>][i].spacesLeft = 0
        /\ db.tablePageSpaces[<<"a">>][j].spacesLeft > 0

\* the free-space queue of a table holds one entry for each of its pages, with
\* the page's free space
QueueExact(d, t) ==
  /\ Len(d.tablePageSpaces[t]) = Len(d.tables[t])
  /\ \A i \in 1..Len(d.tables[t]) :
        \E j \in 1..Len(d.tablePageSpaces[t]) :
           d.tablePageSpaces[t][j] =
              [pageId |-> d.tables[t][i], spacesLeft |-> spacesLeft(d.pages[d.tables[t][i]])]

\* C21: between catalog operations getNumberOfEntries(t) is the number of
\* records stored in the pages of t, and the free-space queue of t holds
\* exactly one entry per page of t with that page's current spacesLeft
C21_CountExact ==
  TableExists(db, <<"a">>) =>
     /\ getNumberOfEntries(db, <<"a">>) = Len(StoredRecords(db, <<"a">>))
     /\ QueueExact(db, <<"a">>)

\* the count of a table of three pages that holds three records after a clear
C21_Witness ==
  /\ out.op = "getNumberOfEntries" /\ out.res = <<3>>
  /\ Len(db.tables[<<"a">>]) = 3
  /\ Len(StoredRecords(db, <<"a">>)) = 3

\* C22: no page ever holds more than maxNoOfRecsPerFile records, its spacesLeft
\* is never negative and is maxNoOfRecsPerFile less the records it holds, and no
\* insert of the catalog ends in the buffer's "Cannot insert record" error
C22_NoInsertIntoFullPage ==
  /\ db.error # "Cannot insert record"
  /\ \A p \in DOMAIN db.pages :
        /\ Len(db.pages[p]) <= maxNoOfRecsPerFile
        /\ spacesLeft(db.pages[p]) >= 0
        /\ Len(db.pages[p]) + spacesLeft(db.pages[p]) = maxNoOfRecsPerFile

\* a batch went into more than one page: it filled a page and went on in
\* another one
C22_Witness ==
  /\ out.op \in {"insertRecords", "insertUniqueRecordsById"}
  /\ db.error = ""
  /\ Len(db.tables[<<"a">>]) >= 2
  /\ \E i, j \in 1..Len(db.tables[<<"a">>]) :
        /\ i # j
        /\ Len(db.pages[db.tables[<<"a">>][i]]) = maxNoOfRecsPerFile
        /\ db.tables[<<"a">>][i] \in Range(db.accesses)
        /\ db.tables[<<"a">>][j] \in Range(db.accesses)

\* the records each page of pageIds holds in d, none for a page d does not have
PageLens(d, pageIds) ==
  [i \in 1..Len(pageIds) |->
     IF pageIds[i] \in DOMAIN d.pages THEN Len(d.pages[pageIds[i]]) ELSE 0]

\* final is what some run of this procedure makes of the page fillings lens,
\* of which the first k are of existing pages, when n records are placed:
\* while records are left, take a page with the most free space among the
\* existing ones, after adding an empty page if none has room, and fill it
RECURSIVE GreedyFill(_, _, _, _)
GreedyFill(lens, k, n, final) ==
  IF n = 0 THEN k = Len(final) /\ \A i \in 1..k : lens[i] = final[i]
  ELSE IF \A i \in 1..k : lens[i] = maxNoOfRecsPerFile
  THEN k < Len(final) /\ GreedyFill([lens EXCEPT ![k + 1] = 0], k + 1, n, final)
  ELSE \E p \in 1..k :
         /\ \A i \in 1..k : lens[p] <= lens[i]
         /\ GreedyFill([lens EXCEPT ![p] = Min(maxNoOfRecsPerFile, @ + n)], k,
                       n - Min(maxNoOfRecsPerFile - lens[p], n), final)

\* the records the pages of t hold in d2 beyond those they held in d
AddedRecords(d, d2, t) ==
  Flatten([i \in 1..Len(d2.tables[t]) |->
             SubSeq(d2.pages[d2.tables[t][i]],
                    PageLens(d, d2.tables[t])[i] + 1, Len(d2.pages[d2.tables[t][i]]))])

\* stored is what insertRecords stores for the record given: the record
\* itself if it has an _id, else the record after a generated _id of table t
StoredFor(stored, given, t) ==
  IF HasKey(given, IdKey) THEN stored = given
  ELSE /\ Len(stored) = Len(given) + 1
       /\ Tail(stored) = given
       /\ stored[1][1] = IdKey
       /\ Len(stored[1][2]) = 3
       /\ stored[1][2] = NanoRecordId(t, stored[1][2][3])

InsertRecordsEffect(d, d2, t, recs) ==
  /\ d2.error = ""
  /\ getNumberOfEntries(d2, t) = getNumberOfEntries(d, t) + Len(recs)
  /\ SubSeq(d2.tables[t], 1, Len(d.tables[t])) = d.tables[t]
  /\ \A i \in 1..Len(d.tables[t]) :
        SubSeq(d2.pages[d.tables[t][i]], 1, Len(d.pages[d.tables[t][i]]))
           = d.pages[d.tables[t][i]]
  /\ Len(AddedRecords(d, d2, t)) = Len(recs)
  /\ \E f \in [1..Len(recs) -> 1..Len(recs)] :
        /\ \A i, j \in 1..Len(recs) : f[i] = f[j] => i = j
        /\ \A i \in 1..Len(recs) : StoredFor(AddedRecords(d, d2, t)[f[i]], recs[i], t)
  /\ \A r \in Range(AddedRecords(d, d2, t)) :
        (Len(Get(r, IdKey)) = 3 /\ Get(r, IdKey)[1] = "nano") =>
           Cardinality({k \in 1..Len(StoredRecords(d2, t)) :
                          Get(StoredRecords(d2, t)[k], IdKey) = Get(r, IdKey)}) = 1
  /\ GreedyFill(PageLens(d, d2.tables[t]), Len(d.tables[t]), Len(recs),
                PageLens(d2, d2.tables[t]))

\* C23: insertRecords(t, recs) stores every record of recs (the entry count
\* grows by the length of recs and what the pages held stays), as it is if it
\* has an _id and after a fresh generated _id of t if it has none, places the
\* records into a page with the most free space and adds a page only when
\* every page of t is full
C23_InsertRecords ==
  [][(out'[1] = "insertRecords") => InsertRecordsEffect(db, db', out'[2], out'[3])]_vars

\* a batch of a record with an _id and one without went into a table of two
\* pages that now holds three records
C23_Witness ==
  /\ out[1] = "insertRecords" /\ Len(out[3]) = 2
  /\ \E i, j \in 1..2 : HasKey(out[3][i], IdKey) /\ ~HasKey(out[3][j], IdKey)
  /\ Len(db.tables[out[2]]) = 2
  /\ Len(StoredRecords(db, out[2])) = 3

\* a table as addTable creates it: one empty page with its queue entry, the
\* columns given, no index
FreshTable(d, t, colNames) ==
  /\ TableExists(d, t)
  /\ Len(d.tables[t]) = 1
  /\ d.pages[d.tables[t][1]] = <<>>
  /\ d.tablePageSpaces[t] =
        <<[pageId |-> d.tables[t][1], spacesLeft |-> maxNoOfRecsPerFile]>>
  /\ d.tableCols[t] = colNames
  /\ DOMAIN d.tableHashes[t] = {}

\* C24: addTable on an existing name returns false and changes nothing of the
\* catalog; on a new name it returns true and the table has one empty page,
\* the given columns and no index
C24_AddTable ==
  [][(out'[1] = "addTable") =>
        IF TableExists(db, out'[2])
        THEN out'[3] = FALSE /\ Stored(db') = Stored(db) /\ db'.error = ""
        ELSE out'[3] = TRUE /\ FreshTable(db', out'[2], CatCols) /\ db'.error = ""]_vars

\* addTable was refused on a table that holds records and an index
C24_Witness ==
  /\ out = <<"addTable", <<"a">>, FALSE>>
  /\ Len(StoredRecords(db, <<"a">>)) >= 2
  /\ isTableHashed(db, <<"a">>, ColKey("c1"))

(***************************************************************************)
(* The life of two tables: created, filled, indexed, cleared, dropped one  *)
(* by one or all at once.  out is as in the catalog above.                 *)
(***************************************************************************)
LifeTables == {<<"a">>, <<"b">>}

LifeBatches ==
  { <<BufRecord(1)>>, <<BufRecord(1), BufRecord(2), BufRecord(1)>> }

DropAllTables ==
  /\ db' = dropAllTables(db)
  /\ out' = <<"dropAllTables">>
  /\ CatFrame

LifeNext ==
  \/ \E t \in LifeTables : AddTable(t)
  \/ \E t \in LifeTables, recs \in LifeBatches : InsertRecords(t, recs)
  \/ \E t \in LifeTables, recs \in LifeBatches : InsertUniqueRecordsById(t, recs)
  \/ \E t \in LifeTables : ClearTable(t)
  \/ \E t \in LifeTables : HashTable(t, ColKey("c1"))
  \/ \E t \in LifeTables : Drop(t)
  \/ DropAllTables

SpecLifecycle == CatInit /\ [][LifeNext]_vars

\* what the catalog holds of table t
TableState(d, t) ==
  [pageIds |-> d.tables[t],
   pages |-> [i \in 1..Len(d.tables[t]) |-> d.pages[d.tables[t][i]]],
   spaces |-> d.tablePageSpaces[t],
   cols |-> d.tableCols[t],
   hashes |-> d.tableHashes[t]]

ClearTableEffect(d, d2, t) ==
  /\ d2.error = ""
  /\ DOMAIN d2.tables = DOMAIN d.tables
  /\ d2.tables[t] = d.tables[t] /\ Len(d2.tables[t]) >= 1
  /\ \A i \in 1..Len(d2.tables[t]) : d2.pages[d2.tables[t][i]] = <<>>
  /\ getNumberOfEntries(d2, t) = 0
  /\ QueueExact(d2, t)
  /\ DOMAIN d2.tableHashes[t] = {}
  /\ \A c \in {IdKey, ColKey("c1")} : ~isTableHashed(d2, t, c)
  /\ d2.tableCols[t] = d.tableCols[t]
  /\ \A u \in DOMAIN d.tables \ {t} : TableState(d2, u) = TableState(d, u)

\* C25: clearTable(t) leaves t its page ids, all of them empty, zero entries,
\* one queue entry of maxNoOfRecsPerFile per page, no index and its columns,
\* and leaves every other table as it was
C25_ClearTable ==
  [][(out'[1] = "clearTable") => ClearTableEffect(db, db', out'[2])]_vars

\* a table of two pages was cleared beside a table that holds records and an
\* index
C25_Witness ==
  /\ out = <<"clearTable", <<"a">>>>
  /\ Len(db.tables[<<"a">>]) = 2
  /\ TableExists(db, <<"b">>)
  /\ Len(StoredRecords(db, <<"b">>)) >= 2
  /\ isTableHashed(db, <<"b">>, ColKey("c1"))

\* the four maps of the catalog hold the same table names
SameTableNames(d) ==
  /\ DOMAIN d.tablePageSpaces = DOMAIN d.tables
  /\ DOMAIN d.tableCols = DOMAIN d.tables
  /\ DOMAIN d.tableHashes = DOMAIN d.tables

LifecycleStep(d, d2, o, o2) ==
  /\ d2.error = ""
  /\ SameTableNames(d2)
  /\ (o2[1] = "drop" /\ ~TableExists(d, o2[2])) => Stored(d2) = Stored(d)
  /\ (o2[1] = "drop" /\ TableExists(d, o2[2])) =>
        /\ DOMAIN d2.tables = DOMAIN d.tables \ {o2[2]}
        /\ \A u \in DOMAIN d2.tables : TableState(d2, u) = TableState(d, u)
  /\ (o[1] = "drop" /\ o2[1] = "addTable" /\ o2[2] = o[2]) =>
        o2[3] = TRUE /\ FreshTable(d2, o2[2], CatCols)
  /\ o2[1] = "dropAllTables" => DOMAIN d2.tables = {}

\* C26: after every step of the life of the tables the page map, the queue
\* map, the column map and the index map hold the same names; the drop of an
\* unknown name changes nothing, the drop of a table removes it alone; a name
\* added right after its drop is a table of one empty page; after
\* dropAllTables there is no table
C26_TableLifecycle ==
  [][LifecycleStep(db, db', out, out')]_vars

\* table a was dropped beside a table b
\* that holds records
C26_Witness ==
  /\ out = <<"drop", <<"a">>, TRUE>>
  /\ DOMAIN db.tables = {<<"b">>}
  /\ SameTableNames(db)
  /\ Len(StoredRecords(db, <<"b">>)) >= 2
  /\ db.nano >= 3

(***************************************************************************)
(* Objects shared between a caller and the pages.  A record of the model   *)
(* is a value; here every object the caller holds is kept with the slots   *)
(* of the pages that hold this very object:                                *)
(*   out.held  the caller's objects, each [val |-> its properties,         *)
(*             at |-> the locators of the slots where it is stored]        *)
(* insertRecords stores Object.assign({}, record) and getPageRecord        *)
(* returns Page.directAccess's copy; insertUniqueRecordsById stores rec    *)
(* and Page.iterator yields the elements of _files.                        *)
(***************************************************************************)
MaxHeld == 2
MaxAliasRows == 2

AliasTables == {<<"a">>, <<"b">>}

AliasInit ==
  /\ db = addTable(addTable(NewDB, <<"a">>, CatCols), <<"b">>, CatCols)
  /\ out = [op |-> "new", held |-> <<>>]
  /\ Idle

\* the caller makes an object
AliasNew(i) ==
  /\ Len(out.held) < MaxHeld
  /\ db' = db
  /\ out' = [op |-> "object", held |-> Append(out.held, [val |-> BufRecord(i), at |-> {}])]
  /\ CatFrame

\* insertRecords(t, [o]): a copy of o is stored
AliasInsertRecords(t, h) ==
  /\ Len(StoredRecords(db, t)) < MaxAliasRows
  /\ db' = insertRecords(db, t, <<out.held[h].val>>)
  /\ out' = [out EXCEPT !.op = "insertRecords"]
  /\ CatFrame

\* insertUniqueRecordsById(t, [o]): o itself is stored, if its _id is new
AliasInsertUnique(t, h) ==
  /\ Len(StoredRecords(db, t)) < MaxAliasRows
  /\ Bind(insertUniqueRecordsById(db, t, <<out.held[h].val>>),
          LAMBDA d2:
            /\ db' = d2
            /\ out' = [op |-> "insertUniqueRecordsById",
                       held |-> [out.held EXCEPT ![h].at =
                                   @ \cup (Range(StoredLocators(d2, t))
                                             \ Range(StoredLocators(db, t)))]])
  /\ CatFrame

Held(held, loc) == \E i \in 1..Len(held) : loc \in held[i].at

\* getAllRecords(t) consumed to its end: the caller holds every object of
\* the pages of t
AliasScan(t) ==
  /\ Bind(getAllRecords(db, t),
          LAMBDA r:
            Bind(FoldLeft(LAMBDA held, loc:
                            IF Held(held, loc) THEN held
                            ELSE Append(held, [val |-> RecordAt(r.d, loc), at |-> {loc}]),
                          out.held, StoredLocators(r.d, t)),
                 LAMBDA held:
                   /\ Len(held) <= MaxHeld
                   /\ db' = r.d
                   /\ out' = [op |-> "getAllRecords", held |-> held]))
  /\ CatFrame

\* getRecsFromHash(t, '_id', '=', id) consumed to its end: the caller holds
\* copies
AliasLookup(t, h) ==
  /\ isTableHashed(db, t, IdKey)
  /\ Bind(getRecsFromHash(db, t, IdKey, "=", Get(out.held[h].val, IdKey)),
          LAMBDA r:
            /\ Len(out.held) + Len(r.x) <= MaxHeld
            /\ db' = r.d
            /\ out' = [op |-> "getRecsFromHash",
                       held |-> out.held \o [i \in 1..Len(r.x) |-> [val |-> r.x[i], at |-> {}]]])
  /\ CatFrame

\* the caller sets the property c1 of an object it holds
AliasMutate(h, v) ==
  /\ Get(out.held[h].val, ColKey("c1")) # v
  /\ db' = [db EXCEPT !.pages =
              [p \in DOMAIN @ |->
                 [k \in 1..Len(@[p]) |->
                    IF <<p, k - 1>> \in out.held[h].at
                    THEN Put(@[p][k], ColKey("c1"), v) ELSE @[p][k]]]]
  /\ out' = [op |-> "mutate",
             held |-> [out.held EXCEPT ![h].val = Put(@, ColKey("c1"), v)]]
  /\ CatFrame

AliasNext ==
  \/ \E i \in 1..2 : AliasNew(i)
  \/ \E t \in AliasTables, h \in 1..Len(out.held) : AliasInsertRecords(t, h)
  \/ \E t \in AliasTables, h \in 1..Len(out.held) : AliasInsertUnique(t, h)
  \/ \E t \in AliasTables : AliasScan(t)
  \/ \E t \in AliasTables, h \in 1..Len(out.held) : AliasLookup(t, h)
  \/ \E h \in 1..Len(out.held), v \in {Str(1), Str(2)} : AliasMutate(h, v)

SpecAlias == AliasInit /\ [][AliasNext]_vars

\* C27: a caller that sets a property of an object it passed to an insert or
\* was handed by a read changes no stored record of any table
C27_PassedByValue ==
  [][(out'.op = "mutate") =>
        \A t \in AliasTables : StoredRecords(db', t) = StoredRecords(db, t)]_vars

(***************************************************************************)
(* getAllRecords pulled one record at a time, with inserts between the     *)
(* pulls.  The generator body runs from the first pull on: table.keys() is *)
(* the array of the page ids of that moment, and the iterator of a page    *)
(* copies _files when the loop reaches the page.                           *)
(*   pc           "idle", "scanning" between pulls, "done" at the end      *)
(*   out.keys     the page ids the scan has not reached                    *)
(*   out.rest     what is left of the copy of the page being read          *)
(*   out.yielded  the records pulled so far                                *)
(*   out.initial  the records of the table at the first pull               *)
(*   out.resident0, out.refetched  the pages resident at the first pull    *)
(*                and how many of them the scan had to admit again         *)
(***************************************************************************)
MaxScanRows == 5
MaxScanOther == 2

ScanInit ==
  /\ db = addTable(addTable(NewDB, <<"a">>, CatCols), <<"b">>, CatCols)
  /\ out = [op |-> "new", keys |-> <<>>, rest |-> <<>>, yielded |-> <<>>,
            initial |-> <<>>, resident0 |-> {}, refetched |-> 0]
  /\ Idle

ScanFrame == UNCHANGED <<query, recordsInserted, passes, before>>

\* the caller inserts n records without _id, before the scan or between pulls
ScanInsert(t, n) ==
  /\ pc \in {"idle", "scanning"}
  /\ Len(StoredRecords(db, t)) + n <= (IF t = <<"a">> THEN MaxScanRows ELSE MaxScanOther)
  /\ db' = insertRecords(db, t, [i \in 1..n |-> << <<ColKey("c1"), Str(1)>> >>])
  /\ out' = [out EXCEPT !.op = "insertRecords"]
  /\ pc' = pc
  /\ ScanFrame

\* one g.next(): the next record of the page being read, or of the next page
\* that has one; done is true when the generator returns
RECURSIVE scanNext(_, _)
scanNext(d, o) ==
  IF o.rest # <<>>
  THEN [d |-> d, done |-> FALSE,
        o |-> [o EXCEPT !.yielded = Append(@, Head(o.rest)), !.rest = Tail(@)]]
  ELSE IF o.keys = <<>> \/ d.error # "" THEN [d |-> d, o |-> o, done |-> TRUE]
  ELSE Bind(getPageContents(d, Head(o.keys)),
            LAMBDA d1:
              scanNext(d1,
                       [o EXCEPT !.keys = Tail(@),
                                 !.rest = IF d1.error = "" THEN d1.pages[Head(o.keys)] ELSE <<>>,
                                 !.refetched =
                                    IF Head(o.keys) \in o.resident0 /\ ~hasPage(d, Head(o.keys))
                                    THEN @ + 1 ELSE @]))

\* the first pull of getAllRecords('a')
ScanStart ==
  /\ pc = "idle"
  /\ Bind(scanNext(db, [op |-> "next", keys |-> db.tables[<<"a">>], rest |-> <<>>,
                        yielded |-> <<>>, initial |-> StoredRecords(db, <<"a">>),
                        resident0 |-> Range(db.buf), refetched |-> 0]),
          LAMBDA r: /\ db' = r.d
                    /\ out' = r.o
                    /\ pc' = IF r.done THEN "done" ELSE "scanning")
  /\ ScanFrame

\* a later pull
ScanPull ==
  /\ pc = "scanning"
  /\ Bind(scanNext(db, [out EXCEPT !.op = "next"]),
          LAMBDA r: /\ db' = r.d
                    /\ out' = r.o
                    /\ pc' = IF r.done THEN "done" ELSE "scanning")
  /\ ScanFrame

ScanNext ==
  \/ \E n \in {1, 3} : ScanInsert(<<"a">>, n)
  \/ ScanInsert(<<"b">>, 1)
  \/ ScanStart
  \/ ScanPull

SpecScan == ScanInit /\ [][ScanNext]_vars

Occurrences(seq, e) == Cardinality({i \in 1..Len(seq) : seq[i] = e})

\* C28: a scan pulled record by record between inserts does not fail, yields
\* no record of the table's content at its first pull twice, and has yielded
\* each of them once when it ends
C28_LazyScan ==
  /\ db.error = ""
  /\ \A i \in 1..Len(out.initial) : Occurrences(out.yielded, out.initial[i]) <= 1
  /\ pc = "done" =>
        \A i \in 1..Len(out.initial) : Occurrences(out.yielded, out.initial[i]) = 1

\* a scan of two pages or more ended after a page resident at its start had
\* been evicted by inserts and admitted again, and after it yielded a record
\* inserted during the scan
C28_Witness ==
  /\ pc = "done"
  /\ Len(out.initial) >= 3
  /\ out.refetched >= 1
  /\ Len(out.yielded) > Len(out.initial)

(***************************************************************************)
(* copyIntoSortedTable.  Array.prototype.sort() without a comparator       *)
(* compares the string conversions of the elements, leaves undefined at    *)
(* the end and is stable.                                                  *)
(***************************************************************************)
\* v sorts before w
SortsBefore(v, w) ==
  v # Undef /\ (w = Undef \/ LexGreater(Digits(w[2]), Digits(v[2])))

\* keys.sort()
ArraySort(keys) ==
  FoldLeft(LAMBDA sorted, v:
             SelectSeq(sorted, LAMBDA e: ~SortsBefore(v, e)) \o <<v>>
               \o SelectSeq(sorted, LAMBDA e: SortsBefore(v, e)),
           <<>>, keys)

\* the DB after copyIntoSortedTable, and the name it returns (x)
copyIntoSortedTable(d, tableName, colName) ==
  Bind(hashTable(addTable(AfterNanoid(d), nanoid(d), getTableKeys(d, tableName)),
                 tableName, colName, TRUE),
       LAMBDA d1:
         [x |-> nanoid(d),
          d |-> FoldLeft(LAMBDA acc, val:
                           Bind(ReadLocators(acc, IndexGet(d1.tableHashes[tableName][colName], val)),
                                LAMBDA r: insertRecords(r.d, nanoid(d), r.x)),
                         d1, ArraySort(IndexKeys(d1.tableHashes[tableName][colName])))])

MaxSortRows == 3

SortValues == {Num(2), Num(9), Num(10), Str(10)}

SortInsert(v) ==
  /\ pc = "idle"
  /\ Len(StoredRecords(db, <<"a">>)) < MaxSortRows
  /\ db' = insertRecords(db, <<"a">>,
                         << << <<IdKey, NanoRecordId(<<"a">>, Len(StoredRecords(db, <<"a">>)))>>,
                               <<ColKey("c1"), v>> >> >>)
  /\ out' = [op |-> "insertRecords"]
  /\ pc' = pc
  /\ JoinFrame

SortCopy ==
  /\ pc = "idle"
  /\ Bind(copyIntoSortedTable(db, <<"a">>, ColKey("c1")),
          LAMBDA r: /\ db' = [r.d EXCEPT !.error = ""]
                    /\ out' = [op |-> "copyIntoSortedTable", name |-> r.x,
                               error |-> r.d.error])
  /\ pc' = "read"
  /\ JoinFrame

SortNext ==
  \/ \E v \in SortValues : SortInsert(v)
  \/ SortCopy

SpecSort == IndexInit /\ [][SortNext]_vars

\* the records of a scan do not decrease in a column
NonDecreasing(recs, colName) ==
  \A i \in 1..(Len(recs) - 1) :
     ~JsGreater(Get(recs[i], colName), Get(recs[i + 1], colName))

\* C29: the table copyIntoSortedTable(t, c) returns has the columns of t and
\* the records of t, each as often as t holds it, and its scan does not
\* decrease in c
C29_SortedCopy ==
  out.op = "copyIntoSortedTable" =>
     /\ out.error = ""
     /\ db.tableCols[out.name] = db.tableCols[<<"a">>]
     /\ BagOf(StoredRecords(db, out.name)) = BagOf(StoredRecords(db, <<"a">>))
     /\ NonDecreasing(StoredRecords(db, out.name), ColKey("c1"))

\* the indexes of t on the columns cols are in d2 what they were in d, and the
\* reads through them return in d2 what they returned in d
IndexesKept(d, d2, t, cols) ==
  \A c \in cols :
     /\ isTableHashed(d2, t, c)
     /\ d2.tableHashes[t][c] = d.tableHashes[t][c]
     /\ \A v \in {Str(1), Str(2)} :
           /\ hasValue(d2, t, c, v) = hasValue(d, t, c, v)
           /\ \A op \in {"=", ">"} :
                 getRecsFromHash(d2, t, c, op, v).x = getRecsFromHash(d, t, c, op, v).x
     /\ hashJoin(d2, t, c, t, c, JoinProjection(t, t), "=", FALSE).x
           = hashJoin(d, t, c, t, c, JoinProjection(t, t), "=", FALSE).x

\* C30: insertRecords leaves every index of the table as it was, and
\* insertUniqueRecordsById every index on a column other than _id: the column
\* stays hashed and hasValue, getRecsFromHash and hashJoin on it return what
\* they returned before the insert
C30_IndexesNotMaintained ==
  [][/\ (out'[1] = "insertRecords") =>
           IndexesKept(db, db', out'[2], DOMAIN db.tableHashes[out'[2]])
     /\ (out'[1] = "insertUniqueRecordsById") =>
           IndexesKept(db, db', out'[2], DOMAIN db.tableHashes[out'[2]] \ {IdKey})]_vars

\* after an insert the index on c1 lacks a record the table holds
C30_Witness ==
  /\ out[1] \in {"insertRecords", "insertUniqueRecordsById"}
  /\ isTableHashed(db, out[2], ColKey("c1"))
  /\ ~IndexCovers(db, out[2], ColKey("c1"))
  /\ Len(out[3]) >= 1
  /\ Len(StoredRecords(db, out[2])) >= 2

(***************************************************************************)
(* executeSingleQuery on recursive terms of every shape the evaluator      *)
(* tells apart: the wildcard, one named column, simple and composite       *)
(* predicates, and tables no predicate links.                              *)
(***************************************************************************)
\* ... UNION SELECT a.c1 FROM a, t WHERE t.c1 = a.c1 ...
SingleColumnQuery ==
  [withDecl |-> WithT,
   nonrecTerm |-> SelectAllFromA,
   recTerm |-> [cols |-> <<Col("a", "c1")>>,
                tables |-> << <<"a">>, <<"t">> >>,
                hasOps |-> TRUE,
                ops |-> <<OpCol(Col("t", "c1"), "=", Col("a", "c1"))>>],
   resultTableName |-> <<"n">>]

\* ... UNION SELECT * FROM a WHERE a.c2 > 2 ...
WildcardQuery ==
  [withDecl |-> WithT,
   nonrecTerm |-> SelectAllFromA,
   recTerm |-> [cols |-> <<Star>>,
                tables |-> << <<"a">> >>,
                hasOps |-> TRUE,
                ops |-> <<OpVal(Col("a", "c2"), ">", Num(2))>>],
   resultTableName |-> <<"n">>]

\* ... UNION SELECT a.c1, a.c2 FROM a WHERE a.c1 > 2 ...
SimpleGreaterQuery ==
  [withDecl |-> WithT,
   nonrecTerm |-> SelectAllFromA,
   recTerm |-> [cols |-> <<Col("a", "c1"), Col("a", "c2")>>,
                tables |-> << <<"a">> >>,
                hasOps |-> TRUE,
                ops |-> <<OpVal(Col("a", "c1"), ">", Num(2))>>],
   resultTableName |-> <<"n">>]

\* ... UNION SELECT a.c1, t.c2 FROM a, t WHERE t.c1 = a.c2 AND a.c1 > 1 ...
SimpleCompositeQuery ==
  [withDecl |-> WithT,
   nonrecTerm |-> SelectAllFromA,
   recTerm |-> [cols |-> <<Col("a", "c1"), Col("t", "c2")>>,
                tables |-> << <<"a">>, <<"t">> >>,
                hasOps |-> TRUE,
                ops |-> <<OpCol(Col("t", "c1"), "=", Col("a", "c2")),
                          OpVal(Col("a", "c1"), ">", Num(1))>>],
   resultTableName |-> <<"n">>]

TermQueries ==
  Queries \cup {SingleColumnQuery, WildcardQuery, SimpleGreaterQuery, SimpleCompositeQuery}

\* one call of executeTerm on the recursive term, in the loop of
\* executeSingleQuery
TermPass ==
  /\ pc = "loop"
  /\ passes < MaxPasses
  /\ passes' = passes + 1
  /\ Bind(executeTerm(db, query.recTerm, query.withDecl.name, query.resultTableName),
          LAMBDA r:
            /\ recordsInserted' = r.delta
            /\ db' = r.d
            /\ pc' = IF r.d.error # "" THEN "failed" ELSE "turn")
  /\ out' = [op |-> "executeTerm", rBefore |-> StoredRecords(db, query.resultTableName)]
  /\ UNCHANGED <<query, before>>

\* `while (recordsInserted > 0)`, and the drop of the working table after the
\* loop
TermLoopTest ==
  /\ pc = "turn"
  /\ pc' = IF LoopContinues(recordsInserted) THEN "loop" ELSE "done"
  /\ db' = IF LoopContinues(recordsInserted) THEN db ELSE drop(db, query.withDecl.name)
  /\ out' = [op |-> "while", rBefore |-> out.rBefore]
  /\ UNCHANGED <<query, recordsInserted, passes, before>>

TermNext ==
  \/ \E lines \in CsvFiles : LoadCsv(lines)
  \/ \E q \in TermQueries : StartQuery(q)
  \/ TermPass
  \/ TermLoopTest

SpecTerm == QueryInit /\ [][TermNext]_vars

\* C31: executeTerm takes the SELECT * path exactly when the term's column list
\* is the single wildcard; a term of one named column is evaluated by the join
\* phases of execute
C31_SelectAllOnlyForWildcard ==
  [][(out'.op = "executeTerm") =>
        db' = IF query.recTerm.cols = <<Star>>
              THEN executeSelectAll(db, query.recTerm, query.withDecl.name,
                                    query.resultTableName)
              ELSE execute(db, query.recTerm, query.withDecl.name,
                           query.resultTableName)]_vars

\* rec satisfies every simple operation of the term on its table t
SatisfiesSimpleOps(term, t, rec) ==
  \A i \in 1..Len(simpleOps(term, t)) :
     IF simpleOps(term, t)[i].operator = "="
     THEN JsLooseEq(Get(rec, ColKey(simpleOps(term, t)[i].lhs.name)),
                    simpleOps(term, t)[i].rhsVal)
     ELSE JsGreater(Get(rec, ColKey(simpleOps(term, t)[i].lhs.name)),
                    simpleOps(term, t)[i].rhsVal)

\* the columns of row that the term selects from t are those of rec
SelectedFrom(d, term, tempTableName, t, row, rec) ==
  \A i \in 1..Len(term.cols) :
     term.cols[i].parentTable = t =>
        Get(row, ColKey(getTableKeys(d, tempTableName)[i]))
          = Get(rec, ColKey(term.cols[i].name))

\* C32: after a pass of a term that is not SELECT *, every row of the working
\* table stems, for each table with simple predicates, from a record of that
\* table that satisfies all of them, whether or not the table is in a
\* composite pair
C32_SimplePredicatesApplied ==
  (pc = "turn" /\ Len(query.recTerm.cols) > 1) =>
     \A t \in Range(simpleKeys(query.recTerm)) :
        \A row \in Range(StoredRecords(db, query.withDecl.name)) :
           \E rec \in Range(StoredRecords(db, t)) :
              /\ SatisfiesSimpleOps(query.recTerm, t, rec)
              /\ SelectedFrom(db, query.recTerm, query.withDecl.name, t, row, rec)

(***************************************************************************)
(* The plan of execute observed between its phases: after the composite    *)
(* joins, and after the join trees are reduced.                            *)
(***************************************************************************)
\* ... UNION SELECT a.c1, t.c2 FROM a, t WHERE t.c1 = a.c2 AND a.c1 > t.c2 ...
MixedSidesQuery ==
  [withDecl |-> WithT,
   nonrecTerm |-> SelectAllFromA,
   recTerm |-> [cols |-> <<Col("a", "c1"), Col("t", "c2")>>,
                tables |-> << <<"a">>, <<"t">> >>,
                hasOps |-> TRUE,
                ops |-> <<OpCol(Col("t", "c1"), "=", Col("a", "c2")),
                          OpCol(Col("a", "c1"), ">", Col("t", "c2"))>>],
   resultTableName |-> <<"n">>]

\* ... UNION SELECT a.c1, t.c2 FROM a, t WHERE t.c1 = a.c2 AND t.c2 > a.c1 ...
SameSidesQuery ==
  [withDecl |-> WithT,
   nonrecTerm |-> SelectAllFromA,
   recTerm |-> [cols |-> <<Col("a", "c1"), Col("t", "c2")>>,
                tables |-> << <<"a">>, <<"t">> >>,
                hasOps |-> TRUE,
                ops |-> <<OpCol(Col("t", "c1"), "=", Col("a", "c2")),
                          OpCol(Col("t", "c2"), ">", Col("a", "c1"))>>],
   resultTableName |-> <<"n">>]

\* ... UNION SELECT a.c1, t.c2 FROM a, t WHERE t.c1 = a.c2 AND a.c2 > a.c1 ...
TreeChildQuery ==
  [withDecl |-> WithT,
   nonrecTerm |-> SelectAllFromA,
   recTerm |-> [cols |-> <<Col("a", "c1"), Col("t", "c2")>>,
                tables |-> << <<"a">>, <<"t">> >>,
                hasOps |-> TRUE,
                ops |-> <<OpCol(Col("t", "c1"), "=", Col("a", "c2")),
                          OpCol(Col("a", "c2"), ">", Col("a", "c1"))>>],
   resultTableName |-> <<"n">>]

PlanQueries ==
  {ReadmeQuery, ClosureQuery, MixedSidesQuery, SameSidesQuery, TreeChildQuery}

\* `for (const tree of trees) independentTables.push(getCommonTreeVals(tree))`
CommonTreeVals ==
  /\ pc = "paired"
  /\ db.error = ""
  /\ pc' = "reduced"
  /\ db' = FoldLeft(LAMBDA acc, tree: getCommonTreeVals(acc, tree), db,
                    trees(query.recTerm))
  /\ out' = [op |-> "getCommonTreeVals", rBefore |-> <<>>]
  /\ UNCHANGED <<query, recordsInserted, passes, before>>

PlanNext ==
  \/ \E lines \in CsvFiles : LoadCsv(lines)
  \/ \E q \in PlanQueries : StartQuery(q)
  \/ CompositeJoins
  \/ CommonTreeVals

SpecPlan == QueryInit /\ [][PlanNext]_vars

\* the pair tables of two different tables
PairTables(d) == {id \in DOMAIN d.tables : id[1] = "[]" /\ id[2] # id[3]}

\* records r1 of the pair's first table and r2 of its second satisfy every
\* composite operation of the pair, each read with its own left-hand side
PairSatisfies(term, id, r1, r2) ==
  \A i \in 1..Len(compositeOps(term, id)) :
     Bind(compositeOps(term, id)[i],
          LAMBDA op:
            Bind(<<IF op.lhs.parentTable = <<id[2]>> THEN r1 ELSE r2,
                   IF op.rhsCol.parentTable = <<id[2]>> THEN r1 ELSE r2>>,
                 LAMBDA lr:
                   IF op.operator = "="
                   THEN JsLooseEq(Get(lr[1], ColKey(op.lhs.name)),
                                  Get(lr[2], ColKey(op.rhsCol.name)))
                   ELSE JsGreater(Get(lr[1], ColKey(op.lhs.name)),
                                  Get(lr[2], ColKey(op.rhsCol.name)))))

\* the combinations (by the ids of the two records) that satisfy the pair
SatisfyingPairs(d, term, id) ==
  {<<Get(r1, IdKey), Get(r2, IdKey)>> :
     <<r1, r2>> \in {pr \in Range(StoredRecords(d, <<id[2]>>))
                              \X Range(StoredRecords(d, <<id[3]>>)) :
                       PairSatisfies(term, id, pr[1], pr[2])}}

\* the combinations the pair table holds, by its provenance properties
PairTableCombinations(d, id) ==
  {<<Get(row, IdOf(<<id[2]>>)), Get(row, IdOf(<<id[3]>>))>> :
     row \in Range(StoredRecords(d, id))}

\* C33: after the composite joins, the pair table of two different tables
\* holds exactly the combinations of their records that satisfy every
\* composite predicate of the pair, whichever table a predicate has on its
\* left-hand side
C33_PairIntersection ==
  (pc = "paired" /\ db.error = "") =>
     \A id \in PairTables(db) :
        /\ PairTableCombinations(db, id) = SatisfyingPairs(db, query.recTerm, id)
        /\ Len(StoredRecords(db, id)) = Cardinality(SatisfyingPairs(db, query.recTerm, id))

\* the rows of the tree's root table for which every child's index on the
\* provenance column of the table it shares with the root holds the row's value
RowsWithMatches(d, tree) ==
  {pr \in Range(StoredRecords(d, tree.id)) :
     \A i \in 1..Len(tree.children) :
        hasValue(d, tree.children[i].id,
                 IdOf(intersectionTable(tree.id, tree.children[i].id)),
                 Get(pr, IdOf(intersectionTable(tree.id, tree.children[i].id))))}

\* C34: getCommonTreeVals keeps a row of a root table with children exactly
\* when every child's index on the shared table's provenance column holds the
\* row's value, so the rewritten root is non-empty whenever some row has
\* matches in all children (trees whose children are leaves)
C34_TreeIntersection ==
  [][(out'.op = "getCommonTreeVals" /\ db'.error = "") =>
        \A k \in 1..Len(trees(query.recTerm)) :
           trees(query.recTerm)[k].children # <<>> =>
              PairTableCombinations(db', trees(query.recTerm)[k].id)
                = {<<Get(pr, IdOf(<<trees(query.recTerm)[k].id[2]>>)),
                     Get(pr, IdOf(<<trees(query.recTerm)[k].id[3]>>))>> :
                   pr \in RowsWithMatches(db, trees(query.recTerm)[k])}]_vars

\* Object.assign({}, r1, r2)
MergeRows(r1, r2) == FoldLeft(LAMBDA acc, p: Put(acc, p[1], p[2]), r1, r2)

\* the combinations of the records of t1 and t2, projected to their columns
\* that are not ids
CartesianProduct(d, t1, t2) ==
  {Range(MergeRows(deleteIds(pr[1]), deleteIds(pr[2]))) :
     pr \in Range(StoredRecords(d, t1)) \X Range(StoredRecords(d, t2))}

\* C35: a pass of a term over two tables that no predicate links completes,
\* leaves in the working table one row for each different combination of
\* their records projected to the columns that are not ids, and drops neither
\* of the two tables
C35_CrossProductCompletes ==
  [][(out'.op = "executeTerm" /\ query = CrossProductQuery) =>
        /\ db'.error = ""
        /\ {<<"a">>, <<"t">>} \subseteq DOMAIN db'.tables
        /\ {Range(deleteIds(StoredRecords(db', <<"t">>)[i])) :
              i \in 1..Len(StoredRecords(db', <<"t">>))}
             = CartesianProduct(db, <<"a">>, <<"t">>)
        /\ Len(StoredRecords(db', <<"t">>))
             = Cardinality(CartesianProduct(db, <<"a">>, <<"t">>))]_vars

\* the set of the _id values of a table's records
IdSet(d, tableName) == Range(StoredIds(d, tableName))

\* the rows of the step of the transitive closure: (a.c1, t.c2) for the
\* records of a and t with t.c1 = a.c2
JoinedRows(d, ta, tt) ==
  {<<Get(pr[1], ColKey("c1")), Get(pr[2], ColKey("c2"))>> :
     pr \in {x \in Range(StoredRecords(d, ta)) \X Range(StoredRecords(d, tt)) :
               JsLooseEq(Get(x[2], ColKey("c1")), Get(x[1], ColKey("c2")))}}

\* what a completed executeTerm leaves from d in d2, for working table w and
\* result table r, having returned delta
PassEffect(d, d2, w, r, delta) ==
  /\ NoDuplicateIds(d2, w)
  /\ IdSet(d2, w) \subseteq IdSet(d2, r)
  /\ delta = Cardinality(IdSet(d2, w) \ IdSet(d, r))
  /\ delta = Len(StoredRecords(d2, r)) - Len(StoredRecords(d, r))
  /\ Range(StoredRecords(d2, r))
       = Range(StoredRecords(d, r))
           \cup {row \in Range(StoredRecords(d2, w)) : Get(row, IdKey) \notin IdSet(d, r)}

\* C36: after every completed executeTerm the working table holds the rows of
\* that execution only, each _id once and each also in the result table, and
\* the number returned is the number of those rows whose _id the result table
\* lacked before; for the closure term the rows are the join of a with the
\* working table of before, for SELECT * the records that pass the filter
C36_WorkingTableOfPass ==
  [][(out'.op = "executeTerm" /\ db'.error = "") =>
        /\ PassEffect(db, db', query.withDecl.name, query.resultTableName,
                      recordsInserted')
        /\ (query = ClosureQuery) =>
              RowsOf(db', <<"t">>) = JoinedRows(db, <<"a">>, <<"t">>)
        /\ (query = WildcardQuery) =>
              RowsOf(db', <<"t">>)
                = {row \in RowsOf(db, <<"a">>) : JsGreater(row[2], Num(2))}]_vars

\* a pass of the closure term returned a positive number smaller than the
\* number of rows it left in the working table: it derived rows the result
\* table held and rows it lacked
C36_Witness ==
  /\ pc = "turn" /\ query = ClosureQuery /\ passes >= 1
  /\ recordsInserted >= 1
  /\ Len(StoredRecords(db, <<"t">>)) > recordsInserted
  /\ Len(StoredRecords(db, <<"n">>)) = Len(out.rBefore) + recordsInserted

(***************************************************************************)
(* The catalog with both modes of hashTable and with reads through the     *)
(* indexes: a caller works on table a and goes on after an exception.      *)
(*   out   <<operation, table, column, message of the exception thrown ("" *)
(*         when none), records yielded>>                                   *)
(***************************************************************************)
HashCols == {IdKey, ColKey("c1")}

\* the most locators an index is let grow to
MaxLocators == 4

\* the number of locators of the index on (t, c)
IndexSize(d, t, c) ==
  IF ~isTableHashed(d, t, c) THEN 0
  ELSE Len(LocatorsOf(d.tableHashes[t][c], IndexKeys(d.tableHashes[t][c])))

HashStep(name, t, arg, d2, recs) ==
  /\ db' = [d2 EXCEPT !.error = ""]
  /\ out' = <<name, t, arg, d2.error, recs>>
  /\ CatFrame

HashAddTable(t) ==
  /\ db.nano < MaxNano
  /\ HashStep("addTable", t, <<>>, addTable(db, t, CatCols), <<>>)

HashInsertRecords(t, recs) ==
  /\ TableExists(db, t)
  /\ db.nano + Len(recs) < MaxNano
  /\ Len(StoredRecords(db, t)) + Len(recs) <= MaxRows
  /\ HashStep("insertRecords", t, <<>>, insertRecords(db, t, recs), <<>>)

HashInsertUnique(t, recs) ==
  /\ TableExists(db, t)
  /\ db.nano + Len(recs) < MaxNano
  /\ Len(StoredRecords(db, t)) < MaxRows
  /\ HashStep("insertUniqueRecordsById", t, <<>>, insertUniqueRecordsById(db, t, recs), <<>>)

HashClearTable(t) ==
  /\ TableExists(db, t)
  /\ HashStep("clearTable", t, <<>>, clearTable(db, t), <<>>)

HashDrop(t) ==
  /\ HashStep("drop", t, <<>>, drop(db, t), <<>>)

\* hashTable(t, c, true)
HashFresh(t, c) ==
  /\ TableExists(db, t)
  /\ HashStep("hashTable", t, c, hashTable(db, t, c, TRUE), <<>>)

\* hashTable(t, c): isNew takes its default, false
HashExtend(t, c) ==
  /\ TableExists(db, t)
  /\ IndexSize(db, t, c) + Len(StoredRecords(db, t)) <= MaxLocators
  /\ HashStep("hashTableExtend", t, c, hashTable(db, t, c, FALSE), <<>>)

\* [...getRecsFromHash(t, c, '=', v)] on a hashed column
HashLookup(t, c, v) ==
  /\ TableExists(db, t)
  /\ isTableHashed(db, t, c)
  /\ Bind(getRecsFromHash(db, t, c, "=", v),
          LAMBDA r: HashStep("getRecsFromHash", t, c, r.d, r.x))

HashNext ==
  \/ \E t \in CatTables : HashAddTable(t)
  \/ \E t \in CatTables, recs \in Batches : HashInsertRecords(t, recs)
  \/ \E t \in CatTables, recs \in Batches : HashInsertUnique(t, recs)
  \/ \E t \in CatTables : HashClearTable(t)
  \/ \E t \in CatTables : HashDrop(t)
  \/ \E t \in CatTables, c \in HashCols : HashFresh(t, c)
  \/ \E t \in CatTables : HashExtend(t, ColKey("c1"))
  \/ \E t \in CatTables, c \in HashCols, v \in {Str(1), Str(2)} : HashLookup(t, c, v)

SpecHash == CatInit /\ [][HashNext]_vars

\* every stored record of t is named once, under its value of c, by the
\* locators of the index on (t, c), and the index names nothing else
CoversExactlyOnce(d, t, c) ==
  /\ d.tableHashes[t][c] # UndefinedIndex
  /\ \A i \in 1..Len(d.tableHashes[t][c]) :
        \A k \in 1..Len(d.tableHashes[t][c][i][2]) :
           /\ d.tableHashes[t][c][i][2][k] \in Range(StoredLocators(d, t))
           /\ Get(RecordAt(d, d.tableHashes[t][c][i][2][k]), c) = d.tableHashes[t][c][i][1]
           /\ \A k2 \in 1..Len(d.tableHashes[t][c][i][2]) :
                 d.tableHashes[t][c][i][2][k2] = d.tableHashes[t][c][i][2][k] => k2 = k
  /\ \A loc \in Range(StoredLocators(d, t)) :
        /\ IndexHas(d.tableHashes[t][c], Get(RecordAt(d, loc), c))
        /\ loc \in Range(IndexGet(d.tableHashes[t][c], Get(RecordAt(d, loc), c)))

\* C37: hashTable(t, c) with isNew false completes whether or not the column
\* has an index, and afterwards the index names every stored record exactly
\* once under its value
C37_ExtendCoversOnce ==
  [][(out'[1] = "hashTableExtend") =>
        /\ out'[4] = ""
        /\ isTableHashed(db', out'[2], out'[3])
        /\ CoversExactlyOnce(db', out'[2], out'[3])]_vars

\* every locator of the index on (t, c) names a page of t and a slot below the
\* page's length, and the record there holds the value the locator is under
LocatorsResolve(d, t, c) ==
  \A i \in 1..Len(d.tableHashes[t][c]) :
     \A k \in 1..Len(d.tableHashes[t][c][i][2]) :
        Bind(d.tableHashes[t][c][i][2][k],
             LAMBDA loc:
               /\ loc[1] \in Range(d.tables[t])
               /\ loc[2] < Len(d.pages[loc[1]])
               /\ Get(d.pages[loc[1]][loc[2] + 1], c) = d.tableHashes[t][c][i][1])

\* C39: after any sequence of inserts, hashTable, clearTable and drop, every
\* locator of every index of a table names a page of that table and a slot
\* below the page's length whose record holds the indexed value, and a lookup
\* through an index never throws 'Record index out of bounds'
C39_NoDanglingLocators ==
  /\ \A t \in DOMAIN db.tables :
        \A c \in DOMAIN db.tableHashes[t] : LocatorsResolve(db, t, c)
  /\ out[1] = "getRecsFromHash" => out[4] # "Record index out of bounds"

\* a lookup read two records through an index that has a locator on the
\* second page of a table of three records
C39_Witness ==
  /\ out[1] = "getRecsFromHash" /\ out[4] = "" /\ Len(out[5]) >= 2
  /\ Len(db.tables[out[2]]) >= 2
  /\ Len(StoredRecords(db, out[2])) >= 3
  /\ \E i \in 1..Len(db.tableHashes[out[2]][out[3]]) :
        \E k \in 1..Len(db.tableHashes[out[2]][out[3]][i][2]) :
           db.tableHashes[out[2]][out[3]][i][2][k][1] = db.tables[out[2]][2]

(***************************************************************************)
(* The frame of executeSingleQuery: what its steps leave of the tables it  *)
(* reads.                                                                  *)
(***************************************************************************)
\* the tables the FROM clauses of a query name, but for its working table
BaseTables(q) ==
  (Range(q.nonrecTerm.tables) \cup Range(q.recTerm.tables)) \ {q.withDecl.name}

\* table t of d is in d2 with the same pages, records, free-space queue and
\* columns, and with at least the indexes it had, unchanged
BaseTableKept(d, d2, t) ==
  /\ t \in DOMAIN d2.tables
  /\ d2.tables[t] = d.tables[t]
  /\ \A i \in 1..Len(d.tables[t]) : d2.pages[d.tables[t][i]] = d.pages[d.tables[t][i]]
  /\ d2.tableCols[t] = d.tableCols[t]
  /\ d2.tablePageSpaces[t] = d.tablePageSpaces[t]
  /\ \A c \in DOMAIN d.tableHashes[t] :
        c \in DOMAIN d2.tableHashes[t] /\ d2.tableHashes[t][c] = d.tableHashes[t][c]

\* C38: no step of executeSingleQuery, whether the query returns or throws,
\* changes a table of its FROM clauses other than the working table: the table
\* stays, with the same records under the same _ids in the same places; only
\* indexes are added to it
C38_BaseTablesUnchanged ==
  [][(out'.op \in {"nonrecTerm", "executeTerm", "while"}) =>
        \A t \in BaseTables(query') \cap DOMAIN db.tables : BaseTableKept(db, db', t)]_vars

\* the closure query returned after several passes that derived rows and left
\* a hashed on c2
C38_Witness ==
  /\ pc = "done" /\ query = ClosureQuery /\ passes >= 2
  /\ isTableHashed(db, <<"a">>, ColKey("c2"))
  /\ Len(StoredRecords(db, <<"n">>)) > Len(StoredRecords(db, <<"a">>))

====
